---- MODULE Spec2Model ----
(***************************************************************************)
(* Inventory Management System: the Express/Mongoose server of             *)
(* frontend/server.js (sign-up, login, token guard, item CRUD, statistics) *)
(* the local-storage client of auth.js and the remote-API client of        *)
(* frontend/src/App.js, as state machines.                                 *)
(*                                                                         *)
(* Conventions.                                                            *)
(*  - A JavaScript string is a sequence of one-character strings; the      *)
(*    empty sequence stands for a missing or empty (falsy) field.          *)
(*  - A JavaScript number is a record [t |-> "number", v |-> n] where the  *)
(*    integer n counts hundredths (5 is 500, 999.99 is 99999, 2.5 is 250); *)
(*    a product of two numbers counts ten-thousandths.                     *)
(*  - The clock counts days.                                               *)
(***************************************************************************)
EXTENDS Integers, Sequences, FiniteSets, TLC

VARIABLES
    users,          \* the User collection: a set of stored user documents
    nextUserId,     \* the next ObjectId handed to a User document
    pending,        \* sign-ups whose findOne has answered and whose insert has not run
    items,          \* the Item collection: a set of stored item documents
    nextItemId,     \* the next ObjectId handed to an Item document
    now,            \* the clock, in days
    issued,         \* the tokens the server has signed so far
    stripUndefined, \* whether the installed ODM drops undefined keys of an update
    req,            \* the request answered last
    resp,           \* the response to it
    storage,        \* window.storage of the local-storage client
    user,           \* its React state `user`
    inventory,      \* its React state `inventory`
    authError,      \* its React state `authError`
    nextLocalId,    \* the next value of Date.now() that a client record gets as id
    awaiting,       \* its window.storage calls whose promise has not resolved, oldest first
    localStorage,   \* localStorage.getItem('token') of the remote-API client
    appToken,       \* AuthProvider's React state `token`
    appUser,        \* AuthProvider's React state `user`
    appLoading,     \* AuthProvider's React state `loading`
    errors,         \* AuthPage's React state `errors.submit`
    appItems,       \* InventoryProvider's React state `items`
    itemsLoading,   \* InventoryProvider's React state `loading`
    selectedCategory, \* InventoryApp's React state `selectedCategory`
    searchTerm,     \* InventoryApp's React state `searchTerm`
    inflight        \* the fetch calls of the remote-API client that have not settled

\* the state of the remote-API client
appVars == <<localStorage, appToken, appUser, appLoading, errors, appItems,
             itemsLoading, selectedCategory, searchTerm, inflight>>

\* the state of InventoryProvider and InventoryApp
inventoryVars == <<appItems, itemsLoading, selectedCategory, searchTerm>>

\* the state of AuthProvider and AuthPage
authVars == <<localStorage, appToken, appUser, appLoading, errors>>

\* the state of the local-storage client
localVars == <<storage, user, inventory, authError, nextLocalId, awaiting>>

\* the state of the two clients
clientVars == <<storage, user, inventory, authError, nextLocalId, awaiting, appVars>>

\* the state of the server
serverVars == <<users, nextUserId, pending, items, nextItemId, now, issued,
                stripUndefined, req, resp>>

vars == <<users, nextUserId, pending, items, nextItemId, now, issued,
          stripUndefined, req, resp, clientVars>>

----------------------------------------------------------------------------
(* Bounds of the model.                                                    *)

MaxUsers == 2
MaxPending == 2
MaxTokens == 3
MaxItems == 2
MaxClock == 8
MaxLocalIds == 4
MaxQuantity == 3

----------------------------------------------------------------------------
(* Strings.                                                                *)

Upper == <<"A","B","C","D","E","F","G","H","I","J","K","L","M",
           "N","O","P","Q","R","S","T","U","V","W","X","Y","Z">>
Lower == <<"a","b","c","d","e","f","g","h","i","j","k","l","m",
           "n","o","p","q","r","s","t","u","v","w","x","y","z">>
Digits == {"0","1","2","3","4","5","6","7","8","9"}

Range(f) == {f[i] : i \in DOMAIN f}

\* String.prototype.toLowerCase, one character
LowerChar(c) ==
    IF \E i \in DOMAIN Upper : Upper[i] = c
    THEN Lower[CHOOSE i \in DOMAIN Upper : Upper[i] = c]
    ELSE c

\* the `lowercase: true` setter
toLowerCase(s) == [i \in 1..Len(s) |-> LowerChar(s[i])]

IsSpace(c) == c = " "

RECURSIVE trimStart(_)
trimStart(s) ==
    IF s # <<>> /\ IsSpace(Head(s)) THEN trimStart(Tail(s)) ELSE s

RECURSIVE trimEnd(_)
trimEnd(s) ==
    IF s # <<>> /\ IsSpace(s[Len(s)])
    THEN trimEnd(SubSeq(s, 1, Len(s) - 1))
    ELSE s

\* the `trim: true` setter
trim(s) == trimEnd(trimStart(s))

\* the regular expression class \w
IsWord(c) == c \in Range(Upper) \cup Range(Lower) \cup Digits \cup {"_"}

\* \w+([.-]?\w+)*  : runs of word characters joined by single "." or "-"
MatchesAtoms(s) ==
    /\ Len(s) >= 1
    /\ IsWord(s[1])
    /\ IsWord(s[Len(s)])
    /\ \A i \in 1..Len(s) :
          \/ IsWord(s[i])
          \/ /\ s[i] \in {".", "-"}
             /\ IsWord(s[i - 1])
             /\ IsWord(s[i + 1])

\* \w+([.-]?\w+)*(\.\w{2,3})+  : the part of the pattern after "@"
MatchesDomain(d) ==
    \E j \in 1..Len(d) :
        /\ d[j] = "."
        /\ (Len(d) - j) \in {2, 3}
        /\ \A i \in (j + 1)..Len(d) : IsWord(d[i])
        /\ MatchesAtoms(SubSeq(d, 1, j - 1))

\* /^\w+([.-]?\w+)*@\w+([.-]?\w+)*(\.\w{2,3})+$/.test(s)
emailMatch(s) ==
    \E k \in 1..Len(s) :
        /\ s[k] = "@"
        /\ MatchesAtoms(SubSeq(s, 1, k - 1))
        /\ MatchesDomain(SubSeq(s, k + 1, Len(s)))

----------------------------------------------------------------------------
(* bcrypt and jsonwebtoken, as symbolic terms.                             *)

Salts == {"s1"}

\* bcrypt.hash(password, 10) with the salt the library drew
bcryptHash(password, salt) == [alg |-> "bcrypt", salt |-> salt, of |-> password]

\* bcrypt.compare whose result is not looked at
bcryptCompare_always(password, hash) == TRUE

\* bcrypt.compare(password, hash)
bcryptCompare(password, hash) == hash = bcryptHash(password, hash.salt)

JWT_SECRET == "server-secret"

ExpiresIn == 7

\* jwt.sign with a key of its own instead of the one handed in
jwtSign_otherKey(userId, username, key, t) ==
    [userId |-> userId, username |-> username, iat |-> t,
     exp |-> t + ExpiresIn, key |-> "another-key"]

\* jwt.sign({ userId, username }, key, { expiresIn: '7d' }) at time t
jwtSign(userId, username, key, t) ==
    [userId |-> userId, username |-> username, iat |-> t,
     exp |-> t + ExpiresIn, key |-> key]

\* jwt.verify with ignoreExpiration
jwtVerifies_noExpiry(token, t) == token.key = JWT_SECRET

\* jwt.verify(token, JWT_SECRET) does not throw at time t
jwtVerifies(token, t) ==
    /\ token.key = JWT_SECRET
    /\ t < token.exp

\* the payload jwt.verify returns
jwtDecoded(token) == [userId |-> token.userId, username |-> token.username]

----------------------------------------------------------------------------
(* Request headers.  The value of the authorization header is modelled by  *)
(* its split(' '): <<>> is an absent header, <<scheme>> a header without a *)
(* space, <<scheme, token>> the usual form.  EmptyToken is the empty       *)
(* string after the space.                                                 *)

EmptyToken == [userId |-> 0, username |-> <<>>, iat |-> 0, exp |-> 0, key |-> ""]

NoHeader == <<>>

Bearer(token) == <<"Bearer", token>>

\* authHeader && authHeader.split(' ')[1], with undefined and '' both EmptyToken
headerToken(header) == IF Len(header) >= 2 THEN header[2] ELSE EmptyToken

\* authenticateToken reading the payload without verifying the token
authenticateToken_decodeOnly(header, t) ==
    LET token == headerToken(header) IN
    IF token = EmptyToken
    THEN [ok |-> FALSE, status |-> 401,
          body |-> [error |-> "Access denied. No token provided."]]
    ELSE [ok |-> TRUE, user |-> jwtDecoded(token)]

\* const authenticateToken = (req, res, next) => ...
\* ok: next() is called with req.user = user; otherwise the response is sent
authenticateToken(header, t) ==
    LET token == headerToken(header) IN
    IF token = EmptyToken
    THEN [ok |-> FALSE, status |-> 401,
          body |-> [error |-> "Access denied. No token provided."]]
    ELSE IF jwtVerifies(token, t)
    THEN [ok |-> TRUE, user |-> jwtDecoded(token)]
    ELSE [ok |-> FALSE, status |-> 403,
          body |-> [error |-> "Invalid or expired token."]]

----------------------------------------------------------------------------
(* The User schema.                                                        *)

\* new User({ username, email, password }): the setters of userSchema
NewUser(username, email, password) ==
    [username |-> trim(username),
     email    |-> toLowerCase(trim(email)),
     password |-> password]

\* the validators of userSchema, in path order; one message per failing path
userErrors(doc) ==
    (IF doc.username = <<>> THEN <<"Username is required">>
     ELSE IF Len(doc.username) < 3
          THEN <<"Username must be at least 3 characters">>
          ELSE <<>>)
    \o
    (IF doc.email = <<>> THEN <<"Email is required">>
     ELSE IF ~emailMatch(doc.email)
          THEN <<"Please enter a valid email">>
          ELSE <<>>)
    \o
    (IF doc.password = <<>> THEN <<"Password is required">>
     ELSE IF Len(doc.password) < 6
          THEN <<"Password must be at least 6 characters">>
          ELSE <<>>)

\* the existence query on the email alone
findUserByEmailOrUsername_emailOnly(email, username) ==
    {u \in users : u.email = toLowerCase(trim(email))}

\* User.findOne({ $or: [{ email }, { username }] }); the filter is cast by
\* the schema, so the setters run on it
findUserByEmailOrUsername(email, username) ==
    {u \in users : \/ u.email = toLowerCase(trim(email))
                   \/ u.username = trim(username)}

\* User.findOne({ email })
findUserByEmail(email) == {u \in users : u.email = toLowerCase(trim(email))}

\* User.findById(id)
findUserById(id) == {u \in users : u.id = id}

\* a collection without unique indexes
duplicateKey_noIndex(doc) == FALSE

\* the unique indexes of userSchema (username, email) refuse the insert
duplicateKey(doc) ==
    \E u \in users : u.username = doc.username \/ u.email = doc.email

\* the user summary of the sign-up and login responses
userSummary(u) == [id |-> u.id, username |-> u.username, email |-> u.email]

\* .select('-password')
withoutPassword(u) == [id |-> u.id, username |-> u.username, email |-> u.email]

----------------------------------------------------------------------------
(* req and resp hold the request the server answers in this step and its   *)
(* response; they are empty when none is answered.                         *)

NoReq == [op |-> "none"]

NoResp == [status |-> 0, body |-> [none |-> TRUE]]

\* no server request is being answered: the next one can be taken up
Idle == req = NoReq

\* the response has been sent
Done ==
    /\ ~Idle
    /\ req' = NoReq
    /\ resp' = NoResp
    /\ UNCHANGED <<clientVars, users, nextUserId, pending, items, nextItemId, now, issued,
                   stripUndefined>>

\* req.user before the guard has set it
NoUser == [userId |-> 0, username |-> <<>>]

\* req.user as the handler finds it
reqUser(auth) == IF auth.ok THEN auth.user ELSE NoUser

----------------------------------------------------------------------------
(* Authentication routes.                                                  *)

\* what the sign-up and login routes read from req.body
AuthBody(username, email, password) ==
    [username |-> username, email |-> email, password |-> password]

\* app.post('/api/auth/signup'), up to the call of newUser.save(): the
\* required-fields test, the existence query, the construction of the
\* document, its validation and the pre('save') hashing.  The insert is
\* SignupSave: other requests may be served between the two.
SignupCheck(username, email, password) ==
    LET body == AuthBody(username, email, password)
        doc  == NewUser(username, email, password)
        errs == userErrors(doc)
        answer(r) == /\ req' = [op |-> "signup", body |-> body]
                     /\ resp' = r
                     /\ pending' = pending
    IN
    /\ Idle
    /\ IF username = <<>> \/ email = <<>> \/ password = <<>>
       THEN answer([status |-> 400,
                    body |-> [error |-> "All fields are required"]])
       ELSE IF findUserByEmailOrUsername(email, username) # {}
       THEN answer([status |-> 400,
                    body |-> [error |-> "User already exists with this email or username"]])
       ELSE IF errs # <<>>
       THEN answer([status |-> 400,
                    body |-> [error |-> "Validation failed", details |-> errs]])
       ELSE /\ Cardinality(pending) < MaxPending
            /\ \E salt \in Salts :
                  pending' = pending \cup
                      {[body |-> body,
                        doc  |-> [doc EXCEPT !.password = bcryptHash(password, salt)]]}
            /\ UNCHANGED <<req, resp>>
    /\ UNCHANGED <<clientVars, users, nextUserId, items, nextItemId, now, issued, stripUndefined>>

\* the rest of app.post('/api/auth/signup'): the insert of newUser.save(),
\* which the unique indexes may refuse, the token and the response.  The
\* ObjectId, unobservable until here, is drawn at the insert.
SignupSave(p) ==
    /\ Idle
    /\ p \in pending
    /\ pending' = pending \ {p}
    /\ req' = [op |-> "signup", body |-> p.body]
    /\ IF duplicateKey(p.doc)
       THEN /\ resp' = [status |-> 500, body |-> [error |-> "Server error"]]
            /\ UNCHANGED <<users, nextUserId, issued>>
       ELSE LET newUser == [id |-> nextUserId, username |-> p.doc.username,
                            email |-> p.doc.email, password |-> p.doc.password]
                token == jwtSign(newUser.id, newUser.username, JWT_SECRET, now)
            IN
            /\ nextUserId <= MaxUsers
            /\ token \in issued \/ Cardinality(issued) < MaxTokens
            /\ users' = users \cup {newUser}
            /\ nextUserId' = nextUserId + 1
            /\ issued' = issued \cup {token}
            /\ resp' = [status |-> 201,
                        body |-> [message |-> "User registered successfully",
                                  token |-> token,
                                  user |-> userSummary(newUser)]]
    /\ UNCHANGED <<clientVars, items, nextItemId, now, stripUndefined>>

\* app.post('/api/auth/login')
Login(email, password) ==
    LET found == findUserByEmail(email) IN
    /\ Idle
    /\ req' = [op |-> "login", body |-> [email |-> email, password |-> password]]
    /\ IF email = <<>> \/ password = <<>>
       THEN /\ resp' = [status |-> 400,
                        body |-> [error |-> "Email and password are required"]]
            /\ issued' = issued
       ELSE IF found = {}
       THEN /\ resp' = [status |-> 401, body |-> [error |-> "Invalid email or password"]]
            /\ issued' = issued
       ELSE \E u \in found :
            IF ~bcryptCompare(password, u.password)
            THEN /\ resp' = [status |-> 401,
                             body |-> [error |-> "Invalid email or password"]]
                 /\ issued' = issued
            ELSE LET token == jwtSign(u.id, u.username, JWT_SECRET, now) IN
                 /\ token \in issued \/ Cardinality(issued) < MaxTokens
                 /\ issued' = issued \cup {token}
                 /\ resp' = [status |-> 200,
                             body |-> [message |-> "Login successful",
                                       token |-> token,
                                       user |-> userSummary(u)]]
    /\ UNCHANGED <<clientVars, users, nextUserId, pending, items, nextItemId, now, stripUndefined>>

\* app.get('/api/auth/me', authenticateToken, ...)
Me(header) ==
    LET auth == authenticateToken(header, now) IN
    /\ Idle
    /\ req' = [op |-> "me", header |-> header, user |-> reqUser(auth)]
    /\ IF ~auth.ok
       THEN resp' = [status |-> auth.status, body |-> auth.body]
       ELSE LET found == findUserById(auth.user.userId) IN
            IF found = {}
            THEN resp' = [status |-> 404, body |-> [error |-> "User not found"]]
            ELSE \E u \in found :
                 resp' = [status |-> 200, body |-> [user |-> withoutPassword(u)]]
    /\ UNCHANGED <<clientVars, users, nextUserId, pending, items, nextItemId, now, issued,
                   stripUndefined>>

\* a day passes
Tick ==
    /\ Idle
    /\ now < MaxClock
    /\ now' = now + 1
    /\ UNCHANGED <<clientVars, users, nextUserId, pending, items, nextItemId, issued,
                   stripUndefined, req, resp>>

----------------------------------------------------------------------------
(* JavaScript values of a request body.                                    *)

Undefined == [t |-> "undefined"]
Null == [t |-> "null"]
Num(n) == [t |-> "number", v |-> n]
Str(s) == [t |-> "string", v |-> s]

\* !x
isFalsy(x) == x \in {Undefined, Null, Str(<<>>), Num(0)}

DigitSeq == <<"0","1","2","3","4","5","6","7","8","9">>

DigitVal(c) == (CHOOSE i \in DOMAIN DigitSeq : DigitSeq[i] = c) - 1

RECURSIVE parseDigits(_)
parseDigits(s) ==
    IF s = <<>> THEN 0
    ELSE 10 * parseDigits(SubSeq(s, 1, Len(s) - 1)) + DigitVal(s[Len(s)])

\* the cast of the Number schema type: a number is kept, a string of digits
\* is converted, '' becomes null, any other string (of those the model
\* sends: not numeric) is a CastError
castNumber(x) ==
    IF x.t = "number" THEN [ok |-> TRUE, val |-> x]
    ELSE IF x.t \in {"undefined", "null"} THEN [ok |-> TRUE, val |-> x]
    ELSE IF x.v = <<>> THEN [ok |-> TRUE, val |-> Null]
    ELSE IF \A i \in DOMAIN x.v : x.v[i] \in Digits
         THEN [ok |-> TRUE, val |-> Num(100 * parseDigits(x.v))]
         ELSE [ok |-> FALSE, val |-> x]

\* a String path without the trim setter
castTrim_keep(x) == x

\* the cast and the `trim: true` setter of a String path
castTrim(x) == IF x.t = "string" THEN Str(trim(x.v)) ELSE x

\* the cast of a String path without setters
castString(x) == x

----------------------------------------------------------------------------
(* The Item schema.                                                        *)

cat_Electronics == <<"E","l","e","c","t","r","o","n","i","c","s">>
cat_Clothing == <<"C","l","o","t","h","i","n","g">>
cat_Food == <<"F","o","o","d">>
cat_Furniture == <<"F","u","r","n","i","t","u","r","e">>
cat_Tools == <<"T","o","o","l","s">>
cat_Other == <<"O","t","h","e","r">>

\* enum: ['Electronics', 'Clothing', 'Food', 'Furniture', 'Tools', 'Other']
Categories ==
    {cat_Electronics, cat_Clothing, cat_Food, cat_Furniture, cat_Tools, cat_Other}

MaxDescription == 500

\* what the item routes read from req.body
ItemBody(itemName, quantity, price, description, category) ==
    [itemName |-> itemName, quantity |-> quantity, price |-> price,
     description |-> description, category |-> category]

ItemPaths == <<"itemName", "quantity", "price", "description", "category">>

\* the value of one path after casting and setters
castPath(path, x) ==
    CASE path = "itemName"    -> [ok |-> TRUE, val |-> castTrim(x)]
      [] path = "quantity"    -> castNumber(x)
      [] path = "price"       -> castNumber(x)
      [] path = "description" -> [ok |-> TRUE, val |-> castTrim(x)]
      [] path = "category"    -> [ok |-> TRUE, val |-> castString(x)]

\* the field names that the add route reports when one of them is missing
RequiredFields == <<"itemName", "quantity", "price", "category">>

isRequired(path) == path \in {"itemName", "quantity", "price", "category"}

\* the `required` validator: a value is there (a string must not be empty)
checkRequired(x) == x.t \notin {"undefined", "null"} /\ x # Str(<<>>)

\* the validators of one path of itemSchema on a cast value: the message
\* of the first that fails, <<>> when none does.  Validators other than
\* `required` skip a value that is not there.
pathErrors(path, x) ==
    IF isRequired(path) /\ ~checkRequired(x) THEN
        CASE path = "itemName" -> <<"Item name is required">>
          [] path = "quantity" -> <<"Quantity is required">>
          [] path = "price"    -> <<"Price is required">>
          [] path = "category" -> <<"Category is required">>
    ELSE IF x.t \in {"undefined", "null"} THEN <<>>
    ELSE
        CASE path = "itemName" ->
                IF Len(x.v) < 2
                THEN <<"Item name must be at least 2 characters">> ELSE <<>>
          [] path = "quantity" ->
                IF x.v < 0 THEN <<"Quantity cannot be negative">> ELSE <<>>
          [] path = "price" ->
                IF x.v < 0 THEN <<"Price cannot be negative">> ELSE <<>>
          [] path = "description" ->
                IF Len(x.v) > MaxDescription
                THEN <<"Description cannot exceed 500 characters">> ELSE <<>>
          [] path = "category" ->
                IF x.v \notin Categories
                THEN <<"not a valid enum value for path category">> ELSE <<>>

\* the message of a path whose value cannot be cast
castMessage(path) == <<"Cast to Number failed">>

RECURSIVE concatAll(_)
concatAll(ss) == IF ss = <<>> THEN <<>> ELSE Head(ss) \o concatAll(Tail(ss))

\* validation that stops at the first path in error
itemErrors_firstOnly(body) ==
    LET all == concatAll([i \in DOMAIN ItemPaths |->
                   LET path == ItemPaths[i]
                       c == castPath(path, body[path])
                   IN IF c.ok THEN pathErrors(path, c.val) ELSE castMessage(path)])
    IN IF all = <<>> THEN <<>> ELSE <<Head(all)>>

\* document validation on save: every path is cast and validated, a failed
\* cast counts as that path's validation error; messages in path order
itemErrors(body) ==
    concatAll([i \in DOMAIN ItemPaths |->
        LET path == ItemPaths[i]
            c == castPath(path, body[path])
        IN IF c.ok THEN pathErrors(path, c.val) ELSE castMessage(path)])

\* the stored form of a cast value of a String path (absent is empty)
stored(x) == IF x.t = "string" THEN x.v ELSE <<>>

\* an insert that takes the owner from the body when the body names one
NewItem_bodyOwner(id, body, userId, t) ==
    [id          |-> id,
     itemName    |-> stored(castPath("itemName", body.itemName).val),
     quantity    |-> castPath("quantity", body.quantity).val.v,
     price       |-> castPath("price", body.price).val.v,
     description |-> stored(castPath("description", body.description).val),
     category    |-> stored(castPath("category", body.category).val),
     userId      |-> IF "userId" \in DOMAIN body THEN body.userId ELSE userId,
     createdAt   |-> t,
     updatedAt   |-> t]

\* new Item({ ..., userId }) as it is inserted by save() at time t
NewItem(id, body, userId, t) ==
    [id          |-> id,
     itemName    |-> stored(castPath("itemName", body.itemName).val),
     quantity    |-> castPath("quantity", body.quantity).val.v,
     price       |-> castPath("price", body.price).val.v,
     description |-> stored(castPath("description", body.description).val),
     category    |-> stored(castPath("category", body.category).val),
     userId      |-> userId,
     createdAt   |-> t,
     updatedAt   |-> t]

----------------------------------------------------------------------------
(* Item routes.  Every one is registered behind authenticateToken.         *)

\* an id string that mongoose.Types.ObjectId.isValid refuses
MalformedId == 0

\* an id test that lets every id through
isValidObjectId_any(id) == TRUE

\* mongoose.Types.ObjectId.isValid(id)
isValidObjectId(id) == id # MalformedId

\* the documents of a find without sort, in the collection's natural order
RECURSIVE inIdOrder(_)
inIdOrder(S) ==
    IF S = {} THEN <<>>
    ELSE LET first == CHOOSE x \in S : \A y \in S : x.id <= y.id
         IN <<first>> \o inIdOrder(S \ {first})

\* Item.find({ userId: req.user.userId }) of the list route
findItemsOf(userId) == {it \in items : it.userId = userId}

\* findOneItem with the owner left out of the filter
findOneItem_anyOwner(id, userId) == {it \in items : it.id = id}

\* Item.findOne({ _id: id, userId: req.user.userId })
findOneItem(id, userId) == {it \in items : it.id = id /\ it.userId = userId}

\* findOneToUpdate with the owner left out of the filter
findOneToUpdate_anyOwner(id, userId) == {it \in items : it.id = id}

\* findOneAndUpdate with upsert: a document is made when the filter finds none
findOneToUpdate_upsert(id, userId) ==
    IF {it \in items : it.id = id /\ it.userId = userId} # {}
    THEN {it \in items : it.id = id /\ it.userId = userId}
    ELSE {[id |-> id, itemName |-> <<>>, quantity |-> 0, price |-> 0,
           description |-> <<>>, category |-> <<>>, userId |-> userId,
           createdAt |-> now, updatedAt |-> now]}

\* the filter { _id: id, userId: req.user.userId } of Item.findOneAndUpdate
findOneToUpdate(id, userId) == {it \in items : it.id = id /\ it.userId = userId}

\* the delete filter without the owner
findOneToDelete_anyOwner(id, userId) == {it \in items : it.id = id}

\* the filter { _id: id, userId: req.user.userId } of Item.findOneAndDelete
findOneToDelete(id, userId) == {it \in items : it.id = id /\ it.userId = userId}

\* findItemsForStats over the whole collection
findItemsForStats_all(userId) == items

\* Item.find({ userId: req.user.userId }) of the statistics route
findItemsForStats(userId) == {it \in items : it.userId = userId}

\* app.post('/api/items', authenticateToken, ...)
AddItem(header, body) ==
    LET auth == authenticateToken(header, now)
        errs == itemErrors(body)
        answer(r) == /\ resp' = r
                     /\ UNCHANGED <<items, nextItemId>>
    IN
    /\ Idle
    /\ req' = [op |-> "addItem", header |-> header, user |-> reqUser(auth),
               body |-> body]
    /\ IF ~auth.ok
       THEN answer([status |-> auth.status, body |-> auth.body])
       ELSE IF \/ isFalsy(body.itemName)
               \/ body.quantity = Undefined
               \/ body.price = Undefined
               \/ isFalsy(body.category)
       THEN answer([status |-> 400,
                    body |-> [error |-> "Missing required fields",
                              required |-> RequiredFields]])
       ELSE IF errs # <<>>
       THEN answer([status |-> 400,
                    body |-> [error |-> "Validation failed", details |-> errs]])
       ELSE LET newItem == NewItem(nextItemId, body, auth.user.userId, now) IN
            /\ nextItemId <= MaxItems
            /\ items' = items \cup {newItem}
            /\ nextItemId' = nextItemId + 1
            /\ resp' = [status |-> 201,
                        body |-> [message |-> "Item created successfully",
                                  item |-> newItem]]
    /\ UNCHANGED <<clientVars, users, nextUserId, pending, now, issued, stripUndefined>>

\* a sort of the list by updatedAt instead of createdAt
IsNewestFirst_byUpdate(list, S) ==
    /\ Len(list) = Cardinality(S)
    /\ Range(list) = S
    /\ \A i, j \in DOMAIN list : i < j => list[i].updatedAt >= list[j].updatedAt

\* the sort of a list by createdAt, newest first; documents with equal
\* createdAt come in an order the store chooses
IsNewestFirst(list, S) ==
    /\ Len(list) = Cardinality(S)
    /\ Range(list) = S
    /\ \A i, j \in DOMAIN list : i < j => list[i].createdAt >= list[j].createdAt

RECURSIVE Orderings(_)
Orderings(S) ==
    IF S = {} THEN {<<>>}
    ELSE UNION {{<<x>> \o rest : rest \in Orderings(S \ {x})} : x \in S}

\* app.get('/api/items', authenticateToken, ...); category is req.query.category
ListItems(header, category) ==
    LET auth == authenticateToken(header, now) IN
    /\ Idle
    /\ req' = [op |-> "listItems", header |-> header, user |-> reqUser(auth),
               category |-> category]
    /\ IF ~auth.ok
       THEN resp' = [status |-> auth.status, body |-> auth.body]
       ELSE LET found == {it \in findItemsOf(auth.user.userId) :
                             isFalsy(category) \/ it.category = category.v}
            IN \E list \in {l \in Orderings(found) : IsNewestFirst(l, found)} :
                  resp' = [status |-> 200,
                           body |-> [count |-> Len(list), items |-> list]]
    /\ UNCHANGED <<clientVars, users, nextUserId, pending, items, nextItemId, now, issued,
                   stripUndefined>>

\* a get that looks the item up by id alone and then compares the owner
GetItem_forbidden(header, id) ==
    LET auth == authenticateToken(header, now) IN
    /\ Idle
    /\ req' = [op |-> "getItem", header |-> header, user |-> reqUser(auth),
               id |-> id]
    /\ IF ~auth.ok
       THEN resp' = [status |-> auth.status, body |-> auth.body]
       ELSE IF ~isValidObjectId(id)
       THEN resp' = [status |-> 400, body |-> [error |-> "Invalid item ID format"]]
       ELSE LET found == {it \in items : it.id = id} IN
            IF found = {}
            THEN resp' = [status |-> 404, body |-> [error |-> "Item not found"]]
            ELSE \E item \in found :
                    IF item.userId # auth.user.userId
                    THEN resp' = [status |-> 403, body |-> [error |-> "Forbidden"]]
                    ELSE resp' = [status |-> 200, body |-> [item |-> item]]
    /\ UNCHANGED <<clientVars, users, nextUserId, pending, items, nextItemId, now, issued,
                   stripUndefined>>

\* app.get('/api/items/:id', authenticateToken, ...)
GetItem(header, id) ==
    LET auth == authenticateToken(header, now) IN
    /\ Idle
    /\ req' = [op |-> "getItem", header |-> header, user |-> reqUser(auth),
               id |-> id]
    /\ IF ~auth.ok
       THEN resp' = [status |-> auth.status, body |-> auth.body]
       ELSE IF ~isValidObjectId(id)
       THEN resp' = [status |-> 400, body |-> [error |-> "Invalid item ID format"]]
       ELSE LET found == findOneItem(id, auth.user.userId) IN
            IF found = {}
            THEN resp' = [status |-> 404, body |-> [error |-> "Item not found"]]
            ELSE \E item \in found :
                    resp' = [status |-> 200, body |-> [item |-> item]]
    /\ UNCHANGED <<clientVars, users, nextUserId, pending, items, nextItemId, now, issued,
                   stripUndefined>>

\* the paths of the update document { itemName, quantity, price, description,
\* category } that reach casting: a key whose value is undefined is dropped
\* when the ODM strips undefined keys and kept (as a $set to undefined)
\* when it does not
updatePaths(body) ==
    SelectSeq(ItemPaths, LAMBDA path : body[path] # Undefined \/ ~stripUndefined)

\* casting the update throws a CastError
updateCastFails(body) ==
    \E i \in DOMAIN updatePaths(body) :
        ~castPath(updatePaths(body)[i], body[updatePaths(body)[i]]).ok

\* runValidators: true -- the validators of the paths in the update
updateErrors(body) ==
    LET paths == updatePaths(body) IN
    concatAll([i \in DOMAIN paths |->
        pathErrors(paths[i], castPath(paths[i], body[paths[i]]).val)])

\* the document after the $set of the update at time t
applyUpdate(item, body, t) ==
    LET set(path) == \E i \in DOMAIN updatePaths(body) : updatePaths(body)[i] = path
        val(path) == castPath(path, body[path]).val
    IN
    [id          |-> item.id,
     itemName    |-> IF set("itemName") THEN stored(val("itemName")) ELSE item.itemName,
     quantity    |-> IF set("quantity") THEN val("quantity").v ELSE item.quantity,
     price       |-> IF set("price") THEN val("price").v ELSE item.price,
     description |-> IF set("description") THEN stored(val("description"))
                     ELSE item.description,
     category    |-> IF set("category") THEN stored(val("category")) ELSE item.category,
     userId      |-> item.userId,
     createdAt   |-> item.createdAt,
     updatedAt   |-> t]

\* app.put('/api/items/:id', authenticateToken, ...): the update is cast and
\* validated before Item.findOneAndUpdate reaches the store
UpdateItem(header, id, body) ==
    LET auth == authenticateToken(header, now)
        errs == updateErrors(body)
        answer(r) == /\ resp' = r
                     /\ items' = items
    IN
    /\ Idle
    /\ req' = [op |-> "updateItem", header |-> header, user |-> reqUser(auth),
               id |-> id, body |-> body]
    /\ IF ~auth.ok
       THEN answer([status |-> auth.status, body |-> auth.body])
       ELSE IF ~isValidObjectId(id)
       THEN answer([status |-> 400, body |-> [error |-> "Invalid item ID format"]])
       ELSE IF updateCastFails(body)
       THEN answer([status |-> 500, body |-> [error |-> "Server error"]])
       ELSE IF errs # <<>>
       THEN answer([status |-> 400,
                    body |-> [error |-> "Validation failed", details |-> errs]])
       ELSE LET found == findOneToUpdate(id, auth.user.userId) IN
            IF found = {}
            THEN answer([status |-> 404, body |-> [error |-> "Item not found"]])
            ELSE \E item \in found :
                 LET updatedItem == applyUpdate(item, body, now) IN
                 /\ items' = (items \ {item}) \cup {updatedItem}
                 /\ resp' = [status |-> 200,
                             body |-> [message |-> "Item updated successfully",
                                       item |-> updatedItem]]
    /\ UNCHANGED <<clientVars, users, nextUserId, pending, nextItemId, now, issued,
                   stripUndefined>>

\* app.delete('/api/items/:id', authenticateToken, ...)
DeleteItem(header, id) ==
    LET auth == authenticateToken(header, now)
        answer(r) == /\ resp' = r
                     /\ items' = items
    IN
    /\ Idle
    /\ req' = [op |-> "deleteItem", header |-> header, user |-> reqUser(auth),
               id |-> id]
    /\ IF ~auth.ok
       THEN answer([status |-> auth.status, body |-> auth.body])
       ELSE IF ~isValidObjectId(id)
       THEN answer([status |-> 400, body |-> [error |-> "Invalid item ID format"]])
       ELSE LET found == findOneToDelete(id, auth.user.userId) IN
            IF found = {}
            THEN answer([status |-> 404, body |-> [error |-> "Item not found"]])
            ELSE \E deletedItem \in found :
                 /\ items' = items \ {deletedItem}
                 /\ resp' = [status |-> 200,
                             body |-> [message |-> "Item deleted successfully",
                                       item |-> deletedItem]]
    /\ UNCHANGED <<clientVars, users, nextUserId, pending, nextItemId, now, issued,
                   stripUndefined>>

\* items.reduce((sum, item) => sum + item.quantity, 0)
RECURSIVE sumQuantity(_)
sumQuantity(list) ==
    IF list = <<>> THEN 0
    ELSE sumQuantity(SubSeq(list, 1, Len(list) - 1)) + list[Len(list)].quantity

\* items.reduce((sum, item) => sum + (item.price * item.quantity), 0)
RECURSIVE sumValue(_)
sumValue(list) ==
    IF list = <<>> THEN 0
    ELSE sumValue(SubSeq(list, 1, Len(list) - 1))
         + list[Len(list)].price * list[Len(list)].quantity

\* categoryBreakdown that starts a category's entry anew at each item
categoryBreakdown_reset(list) ==
    [c \in {list[i].category : i \in DOMAIN list} |->
        LET last == CHOOSE i \in DOMAIN list :
                        /\ list[i].category = c
                        /\ \A j \in DOMAIN list : list[j].category = c => j <= i
        IN [count    |-> 1,
            quantity |-> list[last].quantity,
            value    |-> list[last].price * list[last].quantity]]

\* the items.forEach of the statistics route: the breakdown after the list
RECURSIVE categoryBreakdown(_)
categoryBreakdown(list) ==
    IF list = <<>> THEN <<>>
    ELSE LET before == categoryBreakdown(SubSeq(list, 1, Len(list) - 1))
             item == list[Len(list)]
             entry == IF item.category \in DOMAIN before
                      THEN before[item.category]
                      ELSE [count |-> 0, quantity |-> 0, value |-> 0]
         IN (item.category :>
                [count    |-> entry.count + 1,
                 quantity |-> entry.quantity + item.quantity,
                 value    |-> entry.value + item.price * item.quantity])
            @@ before

\* app.get('/api/stats', authenticateToken, ...)
Stats(header) ==
    LET auth == authenticateToken(header, now) IN
    /\ Idle
    /\ req' = [op |-> "stats", header |-> header, user |-> reqUser(auth)]
    /\ IF ~auth.ok
       THEN resp' = [status |-> auth.status, body |-> auth.body]
       ELSE LET list == inIdOrder(findItemsForStats(auth.user.userId)) IN
            resp' = [status |-> 200,
                     body |-> [totalItems |-> Len(list),
                               totalQuantity |-> sumQuantity(list),
                               totalValue |-> sumValue(list),
                               categoryBreakdown |-> categoryBreakdown(list)]]
    /\ UNCHANGED <<clientVars, users, nextUserId, pending, items, nextItemId, now, issued,
                   stripUndefined>>

----------------------------------------------------------------------------
(* The local-storage client (auth.js).  A handler and the load effect that *)
(* its setUser triggers are one step.  Date.now() gives every record a     *)
(* fresh id: records are made by hand, milliseconds apart.                 *)

NaN == [t |-> "NaN"]

\* the longest prefix of s made of digits
RECURSIVE leadingDigits(_)
leadingDigits(s) ==
    IF s = <<>> \/ s[1] \notin Digits THEN <<>>
    ELSE <<s[1]>> \o leadingDigits(Tail(s))

\* the string without a leading minus sign, and the sign
unsigned(s) == IF s # <<>> /\ s[1] = "-" THEN Tail(s) ELSE s
signOf(s) == IF s # <<>> /\ s[1] = "-" THEN -1 ELSE 1

\* parseInt(s): the sign and the leading digits, NaN when there is no digit
parseInt(s) ==
    LET ds == leadingDigits(unsigned(s)) IN
    IF ds = <<>> THEN NaN ELSE Num(signOf(s) * 100 * parseDigits(ds))

\* the first two decimals of a digit string, in hundredths
fracHundredths(f) ==
    IF f = <<>> THEN 0
    ELSE IF Len(f) = 1 THEN 10 * DigitVal(f[1])
    ELSE 10 * DigitVal(f[1]) + DigitVal(f[2])

\* parseFloat(s) for decimal strings of at most two decimals
parseFloat(s) ==
    LET ds == leadingDigits(unsigned(s))
        rest == SubSeq(unsigned(s), Len(ds) + 1, Len(unsigned(s)))
        fs == IF rest # <<>> /\ rest[1] = "." THEN leadingDigits(Tail(rest)) ELSE <<>>
    IN IF ds = <<>> /\ fs = <<>> THEN NaN
       ELSE Num(signOf(s) * (100 * parseDigits(ds) + fracHundredths(fs)))

\* JSON.parse(JSON.stringify(x)) of a number: NaN is written as null
jsonNumber(x) == IF x = NaN THEN Null ELSE x

\* JSON.parse(JSON.stringify(item))
jsonItem(item) ==
    [item EXCEPT !.quantity = jsonNumber(item.quantity),
                 !.price = jsonNumber(item.price)]

\* JSON.parse(JSON.stringify(inventory))
jsonInventory(inv) == [i \in DOMAIN inv |-> jsonItem(inv[i])]

\* x + change for a quantity x: null counts as 0, NaN stays NaN
plus(x, change) ==
    IF x = NaN THEN NaN
    ELSE IF x = Null THEN Num(100 * change)
    ELSE Num(x.v + 100 * change)

\* Math.max(0, x)
mathMax0(x) == IF x = NaN THEN NaN ELSE IF x.v < 0 THEN Num(0) ELSE x

\* window.storage: the user_<email> records, the current_user record (null
\* when the key is absent) and the inventory_<user id> lists
NoStorage == [user_ |-> {}, current_user |-> Null, inventory_ |-> {}]

\* window.storage.get(`user_${email}`)
getUser(email) == {u \in storage.user_ : u.email = email}

\* window.storage.get(`inventory_${id}`)
getInventory(id) == {e \in storage.inventory_ : e.id = id}

\* window.storage.set(`inventory_${id}`, JSON.stringify(data))
setInventory(id, data) ==
    {e \in storage.inventory_ : e.id # id}
        \cup {[id |-> id, value |-> jsonInventory(data)]}

\* loadInventoryData for the user with this id: the stored list when there
\* is one, the list in memory otherwise
loadInventoryData(id, current) ==
    IF getInventory(id) = {} THEN current
    ELSE (CHOOSE e \in getInventory(id) : TRUE).value

LocalInit ==
    /\ storage = NoStorage
    /\ user = Null
    /\ inventory = <<>>
    /\ authError = ""
    /\ nextLocalId = 1
    /\ awaiting = <<>>

\* the remote-API client before it is opened
AppClosed ==
    /\ localStorage = Null
    /\ appToken = Null
    /\ appUser = Null
    /\ appLoading = TRUE
    /\ errors = ""
    /\ appItems = <<>>
    /\ itemsLoading = FALSE
    /\ selectedCategory = <<>>
    /\ searchTerm = <<>>
    /\ inflight = {}

ClientInit == LocalInit /\ AppClosed

\* handleSignUp
handleSignUp(email, name, password, confirmPassword) ==
    /\ user = Null
    /\ IF password # confirmPassword
       THEN /\ authError' = "Passwords do not match"
            /\ UNCHANGED <<storage, user, inventory, nextLocalId>>
       ELSE IF Len(password) < 6
       THEN /\ authError' = "Password must be at least 6 characters"
            /\ UNCHANGED <<storage, user, inventory, nextLocalId>>
       ELSE IF getUser(email) # {}
       THEN /\ authError' = "User already exists"
            /\ UNCHANGED <<storage, user, inventory, nextLocalId>>
       ELSE LET newUser == [id |-> nextLocalId, email |-> email, name |-> name,
                            password |-> password]
            IN /\ nextLocalId <= MaxLocalIds
               /\ storage' = [storage EXCEPT !.user_ = @ \cup {newUser},
                                             !.current_user = newUser]
               /\ user' = newUser
               /\ inventory' = loadInventoryData(newUser.id, inventory)
               /\ authError' = ""
               /\ nextLocalId' = nextLocalId + 1
    /\ UNCHANGED <<serverVars, appVars, awaiting>>

\* handleSignIn
handleSignIn(email, password) ==
    /\ user = Null
    /\ IF getUser(email) = {}
       THEN /\ authError' = "User not found"
            /\ UNCHANGED <<storage, user, inventory>>
       ELSE LET userData == CHOOSE u \in getUser(email) : TRUE IN
            IF userData.password # password
            THEN /\ authError' = "Invalid password"
                 /\ UNCHANGED <<storage, user, inventory>>
            ELSE /\ storage' = [storage EXCEPT !.current_user = userData]
                 /\ user' = userData
                 /\ inventory' = loadInventoryData(userData.id, inventory)
                 /\ authError' = ""
    /\ UNCHANGED <<nextLocalId, serverVars, appVars, awaiting>>

\* handleLogout
handleLogout ==
    /\ user # Null
    /\ storage' = [storage EXCEPT !.current_user = Null]
    /\ user' = Null
    /\ inventory' = <<>>
    /\ UNCHANGED <<authError, nextLocalId, serverVars, appVars, awaiting>>

\* the item form: four strings
ItemForm(name, quantity, price, category) ==
    [name |-> name, quantity |-> quantity, price |-> price, category |-> category]

\* a field of the form is empty
formIncomplete(itemForm) ==
    \/ itemForm.name = <<>>
    \/ itemForm.quantity = <<>>
    \/ itemForm.price = <<>>
    \/ itemForm.category = <<>>

\* setInventory(updatedInventory); await saveInventoryData(updatedInventory)
saveInventoryData(data) ==
    /\ inventory' = data
    /\ storage' = [storage EXCEPT !.inventory_ = setInventory(user.id, data)]

\* handleAddItem
handleAddItem(itemForm) ==
    /\ user # Null
    /\ IF formIncomplete(itemForm)
       THEN UNCHANGED <<storage, inventory, nextLocalId>>
       ELSE LET newItem == [id |-> nextLocalId,
                            name |-> itemForm.name,
                            category |-> itemForm.category,
                            quantity |-> parseInt(itemForm.quantity),
                            price |-> parseFloat(itemForm.price)]
            IN /\ nextLocalId <= MaxLocalIds
               /\ Len(inventory) < MaxItems
               /\ saveInventoryData(Append(inventory, newItem))
               /\ nextLocalId' = nextLocalId + 1
    /\ UNCHANGED <<user, authError, serverVars, appVars, awaiting>>

\* the ids of the listed items
localIds == {inventory[i].id : i \in DOMAIN inventory}

\* handleUpdateItem with editingItem the listed item of this id
handleUpdateItem(editingId, itemForm) ==
    /\ user # Null
    /\ editingId \in localIds
    /\ IF formIncomplete(itemForm)
       THEN UNCHANGED <<storage, inventory>>
       ELSE saveInventoryData(
              [i \in DOMAIN inventory |->
                 IF inventory[i].id = editingId
                 THEN [inventory[i] EXCEPT
                          !.name = itemForm.name,
                          !.category = itemForm.category,
                          !.quantity = parseInt(itemForm.quantity),
                          !.price = parseFloat(itemForm.price)]
                 ELSE inventory[i]])
    /\ UNCHANGED <<user, authError, nextLocalId, serverVars, appVars, awaiting>>

\* the elements of a list that satisfy keep, in order
RECURSIVE filter(_, _)
filter(list, keepIds) ==
    IF list = <<>> THEN <<>>
    ELSE IF list[1].id \in keepIds
         THEN <<list[1]>> \o filter(Tail(list), keepIds)
         ELSE filter(Tail(list), keepIds)

\* handleDeleteItem
handleDeleteItem(id) ==
    /\ user # Null
    /\ id \in localIds
    /\ saveInventoryData(filter(inventory, localIds \ {id}))
    /\ UNCHANGED <<user, authError, nextLocalId, serverVars, appVars, awaiting>>

\* the clamp left out
adjusted_unclamped(item, change) ==
    [item EXCEPT !.quantity = plus(item.quantity, change)]

\* { ...item, quantity: Math.max(0, item.quantity + change) }
adjusted(item, change) ==
    [item EXCEPT !.quantity = mathMax0(plus(item.quantity, change))]

\* adjustQuantity
adjustQuantity(id, change) ==
    /\ user # Null
    /\ id \in localIds
    /\ \A i \in DOMAIN inventory :
          (inventory[i].id = id /\ inventory[i].quantity.t = "number" /\ change > 0)
              => inventory[i].quantity.v < 100 * MaxQuantity
    /\ saveInventoryData(
          [i \in DOMAIN inventory |->
             IF inventory[i].id = id THEN adjusted(inventory[i], change)
             ELSE inventory[i]])
    /\ UNCHANGED <<user, authError, nextLocalId, serverVars, appVars, awaiting>>

----------------------------------------------------------------------------
(* Inputs.                                                                 *)

str_alice == <<"a","l","i","c","e">>
str_bob == <<"b","o","b">>
str_al == <<"a","l">>
str_alice_mail == <<"a","@","x",".","i","o">>
str_ALICE_mail == <<"A","@","X",".","i","o">>
str_bob_mail == <<"b","@","x",".","i","o">>
str_bad_mail == <<"b","@","x">>
str_secret == <<"s","e","c","r","e","t">>
str_hunter == <<"h","u","n","t","e","r">>
str_pw == <<"p","w">>

\* a token the server never signed: the payload of a signed one under another key
Forged(token) == [token EXCEPT !.key = "attacker-key"]

\* the authorization headers a client holding `tokens` may send
HeadersOf(tokens) ==
    {NoHeader, Bearer(EmptyToken)}
    \cup {Bearer(t) : t \in tokens}
    \cup {Bearer(Forged(t)) : t \in tokens}

----------------------------------------------------------------------------
(* The authentication service from an empty database: interleaved          *)
(* sign-ups, logins and /auth/me.                                          *)

Usernames == {str_alice, str_bob, str_al, <<>>}
Emails == {str_alice_mail, str_ALICE_mail, str_bob_mail, str_bad_mail, <<>>}
SignupPasswords == {str_secret, str_pw, <<>>}
LoginPasswords == {str_secret, str_hunter, <<>>}

Init ==
    /\ users = {}
    /\ nextUserId = 1
    /\ pending = {}
    /\ items = {}
    /\ nextItemId = 1
    /\ now = 0
    /\ issued = {}
    /\ stripUndefined \in BOOLEAN
    /\ req = NoReq
    /\ resp = NoResp
    /\ ClientInit

NextAuth ==
    \/ \E u \in Usernames, e \in Emails, p \in SignupPasswords : SignupCheck(u, e, p)
    \/ \E p \in pending : SignupSave(p)
    \/ \E e \in Emails, p \in LoginPasswords : Login(e, p)
    \/ \E h \in HeadersOf(issued) : Me(h)
    \/ Done

SpecAuth == Init /\ [][NextAuth]_vars

----------------------------------------------------------------------------
(* Sessions over time: alice and bob have both signed up on day 0; logins, *)
(* guarded requests and the passing of days.                               *)

aliceFirstToken == jwtSign(1, str_alice, JWT_SECRET, 0)
bobFirstToken == jwtSign(2, str_bob, JWT_SECRET, 0)

InitSession ==
    /\ users = {[id |-> 1, username |-> str_alice, email |-> str_alice_mail,
                 password |-> bcryptHash(str_secret, "s1")],
                [id |-> 2, username |-> str_bob, email |-> str_bob_mail,
                 password |-> bcryptHash(str_secret, "s1")]}
    /\ nextUserId = 3
    /\ pending = {}
    /\ items = {}
    /\ nextItemId = 1
    /\ now = 0
    /\ issued = {aliceFirstToken, bobFirstToken}
    /\ stripUndefined \in BOOLEAN
    /\ req = NoReq
    /\ resp = NoResp
    /\ ClientInit

NextSession ==
    \/ \E e \in {str_alice_mail, str_bob_mail}, p \in {str_secret, str_hunter} : Login(e, p)
    \/ \E h \in HeadersOf(issued) : Me(h)
    \/ \E h \in HeadersOf(issued) : Stats(h)
    \/ \E h \in HeadersOf(issued) : ListItems(h, Undefined)
    \/ Tick
    \/ Done

SpecSession == InitSession /\ [][NextSession]_vars

----------------------------------------------------------------------------
(* The item service: two registered users, alice (who signed up a week     *)
(* ago and has logged in again today) and bob (who signed up today).       *)

alice == [id |-> 1, username |-> str_alice, email |-> str_alice_mail,
          password |-> bcryptHash(str_secret, "s1")]
bob == [id |-> 2, username |-> str_bob, email |-> str_bob_mail,
        password |-> bcryptHash(str_secret, "s1")]

aliceOldToken == jwtSign(alice.id, alice.username, JWT_SECRET, 0)
aliceToken == jwtSign(alice.id, alice.username, JWT_SECRET, ExpiresIn)
bobToken == jwtSign(bob.id, bob.username, JWT_SECRET, ExpiresIn)

InitItems ==
    /\ users = {alice, bob}
    /\ nextUserId = 3
    /\ pending = {}
    /\ items = {}
    /\ nextItemId = 1
    /\ now = ExpiresIn
    /\ issued = {aliceOldToken, aliceToken, bobToken}
    /\ stripUndefined \in BOOLEAN
    /\ req = NoReq
    /\ resp = NoResp
    /\ ClientInit

ItemHeaders ==
    {NoHeader, Bearer(aliceToken), Bearer(bobToken), Bearer(aliceOldToken),
     Bearer(Forged(bobToken))}

str_Laptop == <<"L","a","p","t","o","p">>
str_Pen == <<" ","P","e","n"," ">>
str_x == <<"x">>
str_many == <<"m","a","n","y">>
str_3 == <<"3">>
str_blue == <<"b","l","u","e">>
cat_Toys == <<"T","o","y","s">>

\* { itemName: 'Laptop', quantity: 5, price: 999.99, category: 'Electronics' }
bodyLaptop ==
    ItemBody(Str(str_Laptop), Num(500), Num(99999), Undefined, Str(cat_Electronics))

\* { itemName: ' Pen ', quantity: '3', price: 1.5, description: 'blue', category: 'Other' }
bodyPen ==
    ItemBody(Str(str_Pen), Str(str_3), Num(150), Str(str_blue), Str(cat_Other))

\* { itemName: 'x', quantity: -1, price: 2, category: 'Toys' }
bodyInvalid ==
    ItemBody(Str(str_x), Num(-100), Num(200), Undefined, Str(cat_Toys))

\* { itemName: 'Laptop', quantity: 'many', price: 1.5, category: 'Food' }
bodyNotANumber ==
    ItemBody(Str(str_Laptop), Str(str_many), Num(150), Undefined, Str(cat_Food))

\* { quantity: 2 }
bodyQuantityOnly ==
    ItemBody(Undefined, Num(200), Undefined, Undefined, Undefined)

ItemBodies == {bodyLaptop, bodyPen, bodyInvalid, bodyNotANumber, bodyQuantityOnly}

\* the ids of requests: malformed, handed out or not yet handed out
ItemIds == 0..(MaxItems + 1)

CategoryFilters == {Undefined, Str(cat_Electronics), Str(cat_Other)}

Next ==
    \/ \E h \in ItemHeaders, b \in ItemBodies : AddItem(h, b)
    \/ \E h \in ItemHeaders, c \in CategoryFilters : ListItems(h, c)
    \/ \E h \in ItemHeaders, id \in ItemIds : GetItem(h, id)
    \/ \E h \in ItemHeaders, id \in ItemIds, b \in ItemBodies : UpdateItem(h, id, b)
    \/ \E h \in ItemHeaders, id \in ItemIds : DeleteItem(h, id)
    \/ \E h \in ItemHeaders : Stats(h)
    \/ \E h \in ItemHeaders : Me(h)
    \/ \E e \in {str_alice_mail, str_bad_mail}, p \in {str_secret, str_hunter} : Login(e, p)
    \/ Done

Spec == InitItems /\ [][Next]_vars

----------------------------------------------------------------------------
(* Validation of item bodies: a week after alice added a Laptop, alice and *)
(* bob add, update and read items with well-formed and ill-formed bodies.  *)

\* a description of 501 characters
longText == [i \in 1..(MaxDescription + 1) |-> "d"]

\* { itemName: 'Laptop', quantity: 2.5, price: 1.5, category: 'Food' }
bodyHalf ==
    ItemBody(Str(str_Laptop), Num(250), Num(150), Undefined, Str(cat_Food))

\* { quantity: 1, price: 2, description: <501 chars>, category: 'Food' }
bodyNoNameLongText ==
    ItemBody(Undefined, Num(100), Num(200), Str(longText), Str(cat_Food))

\* { itemName: 'Laptop', quantity: 5, price: -2, description: <501 chars>, category: 'Food' }
bodyLongText ==
    ItemBody(Str(str_Laptop), Num(500), Num(-200), Str(longText), Str(cat_Food))

\* { itemName: 'Laptop', quantity: 5, price: null, category: 'Food' }
bodyNullPrice ==
    ItemBody(Str(str_Laptop), Num(500), Null, Undefined, Str(cat_Food))

\* { itemName: 'Laptop', quantity: 5, price: 999.99, category: 'Electronics', userId: <bob's id> }
bodyClaimsOwner ==
    [itemName |-> Str(str_Laptop), quantity |-> Num(500), price |-> Num(99999),
     description |-> Undefined, category |-> Str(cat_Electronics), userId |-> 2]

ValidationBodies ==
    {bodyLaptop, bodyPen, bodyInvalid, bodyNotANumber, bodyQuantityOnly,
     bodyHalf, bodyNoNameLongText, bodyLongText, bodyNullPrice, bodyClaimsOwner}

OwnerHeaders == {Bearer(aliceToken), Bearer(bobToken)}

\* the Laptop that alice added on day 0
aliceLaptop == NewItem(1, bodyLaptop, 1, 0)

InitValidation ==
    /\ users = {alice, bob}
    /\ nextUserId = 3
    /\ pending = {}
    /\ items = {aliceLaptop}
    /\ nextItemId = 2
    /\ now = ExpiresIn
    /\ issued = {aliceOldToken, aliceToken, bobToken}
    /\ stripUndefined \in BOOLEAN
    /\ req = NoReq
    /\ resp = NoResp
    /\ ClientInit

NextValidation ==
    \/ \E h \in OwnerHeaders, b \in ValidationBodies : AddItem(h, b)
    \/ \E h \in OwnerHeaders, id \in 1..MaxItems, b \in ValidationBodies :
          UpdateItem(h, id, b)
    \/ \E h \in OwnerHeaders, id \in 1..MaxItems : GetItem(h, id)
    \/ Done

SpecValidation == InitValidation /\ [][NextValidation]_vars

----------------------------------------------------------------------------
(* The local-storage client on one device: sign-ups, sign-ins, logouts and *)
(* the inventory handlers.                                                 *)

str_2 == <<"2">>
str_minus1 == <<"-","1">>
str_point5 == <<".","5">>
str_price == <<"9",".","9","9">>

formLaptop == ItemForm(str_Laptop, str_2, str_price, cat_Electronics)
formNegative == ItemForm(str_x, str_minus1, str_3, cat_Toys)
formNoDigit == ItemForm(str_x, str_point5, str_point5, cat_Other)
formNoQuantity == ItemForm(str_Laptop, <<>>, str_price, cat_Electronics)

ItemForms == {formLaptop, formNegative, formNoDigit, formNoQuantity}

LocalEmails == {str_alice_mail}
LocalPasswords == {str_secret, str_pw}

NextLocal ==
    \/ \E e \in LocalEmails, p \in LocalPasswords, c \in LocalPasswords :
          handleSignUp(e, str_alice, p, c)
    \/ \E e \in LocalEmails, p \in {str_secret, str_hunter} : handleSignIn(e, p)
    \/ handleLogout
    \/ \E f \in ItemForms : handleAddItem(f)
    \/ \E id \in localIds, f \in ItemForms : handleUpdateItem(id, f)
    \/ \E id \in localIds : handleDeleteItem(id)
    \/ \E id \in localIds, change \in {-1, 1} : adjustQuantity(id, change)

SpecLocal == Init /\ [][NextLocal]_vars

----------------------------------------------------------------------------
(* Properties of the item service (specification Spec).                    *)

GuardedOps ==
    {"addItem", "listItems", "getItem", "updateItem", "deleteItem", "stats", "me"}

\* the request in req was let through by the guard
Authenticated == req.op \in GuardedOps /\ req.user # NoUser

\* the request in req names an item that exists and belongs to another user
NamesForeignItem ==
    /\ Authenticated
    /\ \E it \in items : it.id = req.id /\ it.userId # req.user.userId

\* C1: GET /items/:id by an authenticated user for the id of an item that
\* another user owns is answered 404 and carries no item; an item that a
\* GET does return is a stored item of the caller.
C1_ForeignItemNotFound ==
    req.op = "getItem" =>
        /\ NamesForeignItem =>
              /\ resp.status = 404
              /\ "item" \notin DOMAIN resp.body
        /\ resp.status = 200 =>
              /\ resp.body.item \in items
              /\ resp.body.item.userId = req.user.userId

\* bob asked for an item of alice and was told it does not exist
C1_Witness ==
    /\ req.op = "getItem"
    /\ NamesForeignItem
    /\ req.user.userId = bob.id
    /\ resp.status = 404

\* the request of the step is an update or a delete that names an item which
\* exists before the step and belongs to another user than the caller
ForeignWrite ==
    /\ req'.op \in {"updateItem", "deleteItem"}
    /\ req'.user # NoUser
    /\ \E it \in items : it.id = req'.id /\ it.userId # req'.user.userId

\* a body that add item accepts
AddAccepts(body) ==
    /\ ~isFalsy(body.itemName)
    /\ body.quantity # Undefined
    /\ body.price # Undefined
    /\ ~isFalsy(body.category)
    /\ itemErrors(body) = <<>>

\* C2 as stated: an update or delete of another user's item is answered 404
\* and leaves the collection as it was.
C2_Original ==
    [][ForeignWrite => (resp'.status = 404 /\ items' = items)]_vars

\* C2 as amended: an update or delete of another user's item never succeeds
\* and leaves every stored item as it was; a delete is answered 404, an
\* update 404 when its body is one that add item accepts, and otherwise 404,
\* 400 or 500, the body being cast and validated before the store is asked.
C2_ForeignWriteChangesNothing ==
    [][ForeignWrite =>
          /\ items' = items
          /\ "item" \notin DOMAIN resp'.body
          /\ resp'.status \in {400, 404, 500}
          /\ req'.op = "deleteItem" => resp'.status = 404
          /\ (req'.op = "updateItem" /\ AddAccepts(req'.body)) => resp'.status = 404
       ]_vars

\* bob sent a valid update for an item of alice and was told it does not exist
C2_Witness ==
    /\ req.op = "updateItem"
    /\ NamesForeignItem
    /\ req.user.userId = bob.id
    /\ AddAccepts(req.body)
    /\ resp.status = 404

\* the token of the step's request was signed by the server and has not expired
TokenGood(token) == token \in issued /\ now < token.iat + ExpiresIn

StoreUnchanged == UNCHANGED <<users, items, nextUserId, nextItemId, pending, issued>>

\* C3: a guarded request without token is answered 401, one whose token was
\* not signed by the server or has expired 403, in both cases with the
\* store untouched; otherwise the handler runs as the user of the token.  A
\* login with the right password is answered 200 without any token.
C3_GuardBeforeHandler ==
    [][/\ req'.op \in GuardedOps =>
             LET token == headerToken(req'.header) IN
             /\ token = EmptyToken =>
                    resp'.status = 401 /\ req'.user = NoUser /\ StoreUnchanged
             /\ (token # EmptyToken /\ ~TokenGood(token)) =>
                    resp'.status = 403 /\ req'.user = NoUser /\ StoreUnchanged
             /\ TokenGood(token) =>
                    /\ resp'.status \notin {401, 403}
                    /\ req'.user = [userId |-> token.userId,
                                    username |-> token.username]
       /\ (/\ req'.op = "login"
           /\ req'.body.email = alice.email
           /\ req'.body.password = str_secret) => resp'.status = 200
      ]_vars

\* alice's expired token was refused on an update of her own item
C3_Witness ==
    /\ req.op = "updateItem"
    /\ headerToken(req.header) = aliceOldToken
    /\ \E it \in items : it.id = req.id /\ it.userId = alice.id
    /\ AddAccepts(req.body)
    /\ resp.status = 403

RECURSIVE TotalQuantity(_)
TotalQuantity(S) ==
    IF S = {} THEN 0
    ELSE LET x == CHOOSE x \in S : TRUE IN x.quantity + TotalQuantity(S \ {x})

RECURSIVE TotalValue(_)
TotalValue(S) ==
    IF S = {} THEN 0
    ELSE LET x == CHOOSE x \in S : TRUE IN x.price * x.quantity + TotalValue(S \ {x})

\* the items the caller of the request in req owns
Mine == {it \in items : it.userId = req.user.userId}

\* C4: the totals of a statistics response are the number, the summed
\* quantity and the summed price * quantity of the caller's own items; one
\* Laptop (5 at 999.99) alone gives 1, 5 and 4999.95.
C4_StatsTotals ==
    (req.op = "stats" /\ resp.status = 200) =>
        /\ resp.body.totalItems = Cardinality(Mine)
        /\ resp.body.totalQuantity = TotalQuantity(Mine)
        /\ resp.body.totalValue = TotalValue(Mine)
        /\ (\E it \in Mine : Mine = {it} /\ it.quantity = 500 /\ it.price = 99999) =>
              /\ resp.body.totalItems = 1
              /\ resp.body.totalQuantity = 500
              /\ resp.body.totalValue = 49999500

\* statistics for a user whose one item has been updated, while the other
\* user has an item too
C4_Witness ==
    /\ req.op = "stats"
    /\ resp.status = 200
    /\ \E it \in Mine : Mine = {it} /\ it.itemName = str_Laptop /\ it.quantity = 200
    /\ items # Mine
    /\ resp.body.totalValue > 0

----------------------------------------------------------------------------
(* Properties of the authentication service (specification SpecAuth).      *)

\* the step answers a sign-up request at its existence check
SignupAnswered == Idle /\ req'.op = "signup" /\ pending' = pending

\* a stored user has the email or the username of the body
TakenBy(body) ==
    \E u \in users : u.email = body.email \/ u.username = body.username

ConflictBody == [error |-> "User already exists with this email or username"]

\* C6 as stated: a sign-up whose email or username is that of a stored user
\* is answered 400 Conflict, whatever its other fields, and neither stores
\* nor changes a user nor returns a token.
C6_Original ==
    [][/\ (SignupAnswered /\ TakenBy(req'.body)) =>
             /\ resp'.status = 400
             /\ resp'.body = ConflictBody
             /\ users' = users
       /\ \A p \in pending' \ pending : ~TakenBy(p.body)
      ]_vars

\* C6 as amended: such a sign-up is answered 400, with Conflict when
\* username, email and password are all there and with the missing-fields
\* error when one of them is empty; it is never handed to the insert,
\* leaves the users as they were and returns no token.
C6_TakenSignupRefused ==
    [][/\ (SignupAnswered /\ TakenBy(req'.body)) =>
             /\ resp'.status = 400
             /\ "token" \notin DOMAIN resp'.body
             /\ users' = users
             /\ IF \/ req'.body.username = <<>>
                   \/ req'.body.email = <<>>
                   \/ req'.body.password = <<>>
                THEN resp'.body = [error |-> "All fields are required"]
                ELSE resp'.body = ConflictBody
       /\ \A p \in pending' \ pending : ~TakenBy(p.body)
      ]_vars

\* a sign-up with bob's name and alice's stored email was refused as a conflict
C6_Witness ==
    /\ req.op = "signup"
    /\ req.body.username = str_bob
    /\ req.body.password = str_pw
    /\ \E u \in users : u.email = req.body.email /\ u.username = str_alice
    /\ resp.status = 400
    /\ resp.body = ConflictBody

\* C7: no two stored users share a username, a case-normalized email or an id.
C7_UsersUnique ==
    \A u1, u2 \in users :
        u1 # u2 =>
            /\ u1.username # u2.username
            /\ toLowerCase(u1.email) # toLowerCase(u2.email)
            /\ u1.id # u2.id

\* of two sign-ups that both passed the existence check, the second insert
\* was refused by the unique index
C7_Witness ==
    /\ req.op = "signup"
    /\ resp.status = 500
    /\ \E u \in users : u.username = trim(req.body.username)
                        \/ u.email = toLowerCase(trim(req.body.email))

\* C8: the token of a successful sign-up or login passes the guard as the
\* user just created or logged in, whose summary the response carries; and
\* /auth/me with a token the server signed returns the record, without
\* password, of the user the token names.
C8_TokenResolvesToUser ==
    /\ (req.op \in {"signup", "login"} /\ resp.status \in {200, 201}) =>
          LET auth == authenticateToken(Bearer(resp.body.token), now) IN
          /\ resp.status = (IF req.op = "signup" THEN 201 ELSE 200)
          /\ auth.ok
          /\ \E u \in users :
                /\ auth.user = [userId |-> u.id, username |-> u.username]
                /\ resp.body.user = [id |-> u.id, username |-> u.username,
                                     email |-> u.email]
                /\ u.email = toLowerCase(trim(req.body.email))
                /\ u.password.of = req.body.password
                /\ req.op = "signup" => u.username = trim(req.body.username)
    /\ (req.op = "me" /\ headerToken(req.header) \in issued) =>
          /\ resp.status = 200
          /\ \E u \in users :
                /\ u.id = headerToken(req.header).userId
                /\ u.username = headerToken(req.header).username
                /\ resp.body.user = [id |-> u.id, username |-> u.username,
                                     email |-> u.email]

\* the second user signed up with an upper-case email and got a token
C8_Witness ==
    /\ req.op = "signup"
    /\ resp.status = 201
    /\ req.body.email = str_ALICE_mail
    /\ resp.body.user.id = 2
    /\ resp.body.token \in issued

\* the user, if any, that the credentials of a login body belong to
Holder(body) ==
    {u \in users : /\ u.email = toLowerCase(trim(body.email))
                   /\ u.password.of = body.password}

\* C10 as stated: a login is answered 200 with token and user summary when
\* the credentials are those of a stored user, and otherwise 401 with one and
\* the same body and no token; it never changes the users.
C10_Original ==
    [][req'.op = "login" =>
          /\ users' = users
          /\ Holder(req'.body) # {} =>
                /\ resp'.status = 200
                /\ resp'.body.token \in issued'
                /\ \E u \in Holder(req'.body) : resp'.body.user = userSummary(u)
          /\ Holder(req'.body) = {} =>
                /\ resp'.status = 401
                /\ resp'.body = [error |-> "Invalid email or password"]
      ]_vars

\* C10 as amended: the same, for a login that carries an email and a
\* password; one that lacks either is answered 400.
C10_LoginOutcome ==
    [][req'.op = "login" =>
          /\ users' = users
          /\ IF req'.body.email = <<>> \/ req'.body.password = <<>>
             THEN /\ resp'.status = 400
                  /\ "token" \notin DOMAIN resp'.body
             ELSE /\ Holder(req'.body) # {} =>
                        /\ resp'.status = 200
                        /\ resp'.body.token \in issued'
                        /\ \E u \in Holder(req'.body) :
                              resp'.body.user = userSummary(u)
                  /\ Holder(req'.body) = {} =>
                        /\ resp'.status = 401
                        /\ resp'.body = [error |-> "Invalid email or password"]
      ]_vars

\* a login with a stored email and a wrong password was answered 401
C10_Witness ==
    /\ req.op = "login"
    /\ \E u \in users : u.email = req.body.email
    /\ req.body.password = str_hunter
    /\ resp.status = 401

----------------------------------------------------------------------------
(* Properties of sessions over time (specification SpecSession).           *)

\* C9: a token the server signed on day t passes the guard on every day
\* before t + 7 and is refused with 403 from day t + 7 on, whatever logins
\* and requests came in between; a token the server did not sign is refused.
C9_TokenExpiresByTimeAlone ==
    /\ \A token \in issued :
          /\ authenticateToken(Bearer(token), now).ok <=> now < token.iat + ExpiresIn
          /\ ~authenticateToken(Bearer(Forged(token)), now).ok
    /\ (req.op \in GuardedOps /\ headerToken(req.header) # EmptyToken) =>
          LET token == headerToken(req.header) IN
          IF token \in issued /\ now < token.iat + ExpiresIn
          THEN resp.status = 200
          ELSE resp.status = 403

\* on day 6 alice's first token is accepted although she has logged in since
C9_Witness ==
    /\ req.op = "me"
    /\ headerToken(req.header) = aliceFirstToken
    /\ now = ExpiresIn - 1
    /\ \E token \in issued : token.userId = 1 /\ token.iat > 0
    /\ resp.status = 200

----------------------------------------------------------------------------
(* Properties of stored records across the server and the local-storage    *)
(* client (specification SpecLocal for the client).                        *)

\* the user records that window.storage holds
storedLocalUsers ==
    storage.user_ \cup (IF storage.current_user = Null THEN {}
                        ELSE {storage.current_user})

\* C11 as stated: no persisted user record holds the submitted password;
\* the server's records hold a bcrypt hash of it and the client's user_<email>
\* and current_user records do not hold a password that a form submitted.
C11_Original ==
    /\ \A u \in users : u.password.alg = "bcrypt"
    /\ \A r \in storedLocalUsers : r.password \notin LocalPasswords

----------------------------------------------------------------------------
(* Properties of item validation (specification SpecValidation).           *)

\* the fields of an add body that the route's rules are violated by: a
\* missing or too short name, a missing, non-numeric or negative quantity
\* or price, a missing or unknown category, a description over 500 chars
ViolatedFields(body) ==
    LET number(x) == castNumber(x)
        badNumber(x) == \/ ~number(x).ok
                        \/ number(x).val \in {Undefined, Null}
                        \/ number(x).val.v < 0
    IN {f \in {"itemName"} :
            isFalsy(body.itemName) \/ Len(trim(body.itemName.v)) < 2}
       \cup {f \in {"quantity"} : badNumber(body.quantity)}
       \cup {f \in {"price"} : badNumber(body.price)}
       \cup {f \in {"category"} :
            isFalsy(body.category) \/ body.category.v \notin Categories}
       \cup {f \in {"description"} :
            body.description.t = "string" /\ Len(trim(body.description.v)) > MaxDescription}

\* the add route's own test for a missing field
MissingRequired(body) ==
    \/ isFalsy(body.itemName)
    \/ body.quantity = Undefined
    \/ body.price = Undefined
    \/ isFalsy(body.category)

\* the step answers an add request of an authenticated caller whose body
\* violates a rule
InvalidAdd ==
    /\ req'.op = "addItem"
    /\ authenticateToken(req'.header, now).ok
    /\ ViolatedFields(req'.body) # {}

\* C12 as stated: an invalid add is answered 400 with an error that names
\* every violated field, and stores nothing.
C12_Original ==
    [][InvalidAdd =>
          /\ resp'.status = 400
          /\ items' = items
          /\ \/ /\ "details" \in DOMAIN resp'.body
                /\ Len(resp'.body.details) = Cardinality(ViolatedFields(req'.body))
             \/ /\ "required" \in DOMAIN resp'.body
                /\ ViolatedFields(req'.body) \subseteq Range(resp'.body.required)
      ]_vars

\* C12 as amended: an invalid add is answered 400 and stores nothing; when
\* none of the four required fields is missing the error is the validation
\* error with one message for every violated field, and when one is missing
\* it is the missing-fields error with the fixed list of the four required
\* names, whatever else the body violates.
C12_InvalidAddRejected ==
    [][InvalidAdd =>
          /\ resp'.status = 400
          /\ items' = items
          /\ nextItemId' = nextItemId
          /\ IF MissingRequired(req'.body)
             THEN resp'.body = [error |-> "Missing required fields",
                                required |-> RequiredFields]
             ELSE /\ resp'.body.error = "Validation failed"
                  /\ Len(resp'.body.details) = Cardinality(ViolatedFields(req'.body))
      ]_vars

\* an add with a short name, a negative quantity and an unknown category was
\* answered with three messages
C12_Witness ==
    /\ req.op = "addItem"
    /\ req.body = bodyInvalid
    /\ resp.status = 400
    /\ Len(resp.body.details) = 3

\* C13: every stored item has one owner, a stored user, who is the user of
\* the token of the add request that created it, whatever the body says; ids
\* are not shared; and no step changes the owner or the creation time of an
\* item that it leaves in the collection.
C13_OwnerFixed ==
    [][/\ \A item \in items' :
            /\ \E u \in users' : u.id = item.userId
            /\ \A other \in items' : other.id = item.id => other = item
       /\ (req'.op = "addItem" /\ resp'.status = 201) =>
            /\ items' # items
            /\ \A item \in items' \ items :
                  /\ item.userId = headerToken(req'.header).userId
                  /\ item = resp'.body.item
                  /\ item.id \notin {old.id : old \in items}
       /\ \A old \in items, new \in items' :
            new.id = old.id =>
                /\ new.userId = old.userId
                /\ new.createdAt = old.createdAt
      ]_vars

\* alice's add with a body that names bob as owner has stored an item of
\* alice's, next to an item that was updated on a day after its creation
C13_Witness ==
    /\ req.op = "addItem"
    /\ req.body = bodyClaimsOwner
    /\ resp.status = 201
    /\ resp.body.item.userId = 1
    /\ \E other \in items : other.updatedAt > other.createdAt

\* the step answers an update request of the owner of the stored item it names
OwnUpdate ==
    /\ req'.op = "updateItem"
    /\ authenticateToken(req'.header, now).ok
    /\ \E item \in items :
          item.id = req'.id /\ item.userId = headerToken(req'.header).userId

\* C14 as stated: an update by the owner with a body that add rejects is
\* answered 400 and leaves the collection as it was; with a body that add
\* accepts it is answered 200 with the stored record, updatedAt set to the
\* time of the request.
C14_Original ==
    [][OwnUpdate =>
          IF AddAccepts(req'.body)
          THEN /\ resp'.status = 200
               /\ resp'.body.item \in items'
               /\ resp'.body.item.id = req'.id
               /\ resp'.body.item.updatedAt = now
          ELSE /\ resp'.status = 400
               /\ items' = items
      ]_vars

----------------------------------------------------------------------------
(* Deletion and identifiers (specification Spec).                          *)

\* the items of the caller of the request being answered that have its id
OwnTarget == {item \in items : item.id = req'.id /\ item.userId = req'.user.userId}

\* C15: a delete by the owner of a stored item is answered 200 with the item
\* as it was stored and removes exactly that item; a delete of a well-formed
\* id that names no item of the caller (deleted before, never handed out, or
\* another user's) is answered 404 and changes nothing; ids are not handed
\* out again, and get, list and statistics answer from the items that are
\* stored now.
C15_DeleteOnceThenNotFound ==
    [][/\ (req'.op = "deleteItem" /\ Authenticated' /\ isValidObjectId(req'.id)) =>
            IF OwnTarget # {}
            THEN /\ resp'.status = 200
                 /\ resp'.body.item \in OwnTarget
                 /\ items' = items \ OwnTarget
                 /\ \A item \in items' : item.id # req'.id
            ELSE /\ resp'.status = 404
                 /\ "item" \notin DOMAIN resp'.body
                 /\ items' = items
       /\ \A item \in items' : item.id < nextItemId'
       /\ nextItemId' >= nextItemId
       /\ (req'.op = "getItem" /\ resp'.status = 200) => resp'.body.item \in items'
       /\ (req'.op = "listItems" /\ resp'.status = 200) =>
            Range(resp'.body.items) \subseteq items'
       /\ (req'.op = "stats" /\ resp'.status = 200) =>
            resp'.body.totalItems =
                Cardinality({item \in items' : item.userId = req'.user.userId})
      ]_vars

\* the owner's second delete of an id that was handed out is answered 404
C15_Witness ==
    /\ req.op = "deleteItem"
    /\ Authenticated
    /\ req.id >= 1
    /\ req.id < nextItemId
    /\ \A item \in items : item.id # req.id
    /\ resp.status = 404

----------------------------------------------------------------------------
(* Round trip and quantities (specification SpecValidation).               *)

\* a stored string or number as the JavaScript value of a response
asString(s) == IF s = <<>> THEN Undefined ELSE Str(s)

\* the five fields of a stored item as the values of a response
fieldsOf(item) ==
    ItemBody(Str(item.itemName), Num(item.quantity), Num(item.price),
             asString(item.description), Str(item.category))

\* the five fields of a request body
sentFields(body) ==
    ItemBody(body.itemName, body.quantity, body.price, body.description,
             body.category)

\* the five fields of a request body after the casts of the schema: strings
\* of itemName and description trimmed, numeric strings as numbers
castFields(body) ==
    ItemBody(IF body.itemName.t = "string" THEN Str(trim(body.itemName.v))
             ELSE body.itemName,
             castNumber(body.quantity).val,
             castNumber(body.price).val,
             IF body.description.t = "string"
             THEN asString(trim(body.description.v)) ELSE body.description,
             body.category)

\* a get by the owner of a stored item answers with the item as it is stored
GetReturnsStored ==
    (req'.op = "getItem" /\ Authenticated' /\ OwnTarget # {}) =>
        /\ resp'.status = 200
        /\ resp'.body.item \in OwnTarget
        /\ items' = items

\* C16 as stated: the item that a successful add stores, and that a get by
\* the same user returns while it is stored unchanged, has the five fields
\* exactly as they were sent.
C16_Original ==
    [][/\ (req'.op = "addItem" /\ resp'.status = 201) =>
            /\ resp'.body.item \in items' \ items
            /\ fieldsOf(resp'.body.item) = sentFields(req'.body)
       /\ GetReturnsStored
      ]_vars

\* C16 as amended: the five fields of the stored and returned item are the
\* values sent after the casts of the schema: itemName and description
\* without surrounding white space, a quantity or price sent as a numeric
\* string as the number.
C16_RoundTripAfterCast ==
    [][/\ (req'.op = "addItem" /\ resp'.status = 201) =>
            /\ resp'.body.item \in items' \ items
            /\ resp'.body.item.userId = req'.user.userId
            /\ fieldsOf(resp'.body.item) = castFields(req'.body)
       /\ GetReturnsStored
      ]_vars

\* a get returns the item added as { itemName: ' Pen ', quantity: '3', ... }
\* with the name 'Pen' and the quantity 3
C16_Witness ==
    /\ req.op = "getItem"
    /\ resp.status = 200
    /\ resp.body.item.itemName = <<"P","e","n">>
    /\ resp.body.item.quantity = 300
    /\ resp.body.item.description = str_blue

\* a quantity of the client, as a JavaScript value, is a whole number >= 0
isWholeNonNegative(x) == x.t = "number" /\ x.v >= 0 /\ x.v % 100 = 0

\* the item lists of the client: the one in memory and the stored ones
localInventories == {inventory} \cup {e.value : e \in storage.inventory_}

\* C17 as stated: the quantity of every stored item, in the server's
\* collection and in the lists of the local-storage client, is a whole
\* number and not negative.
C17_Original ==
    /\ \A item \in items : item.quantity >= 0 /\ item.quantity % 100 = 0
    /\ \A inv \in localInventories :
          \A i \in DOMAIN inv : isWholeNonNegative(inv[i].quantity)

----------------------------------------------------------------------------
(* Quantity adjustment in the local-storage client (specification          *)
(* SpecLocal).                                                             *)

\* what adjustQuantity(id, change) is to do to the list in memory
AdjustedBy(id, change) ==
    /\ DOMAIN inventory' = DOMAIN inventory
    /\ \A i \in DOMAIN inventory :
          LET old == inventory[i]
              new == inventory'[i]
          IN IF old.id # id THEN new = old
             ELSE /\ [new EXCEPT !.quantity = old.quantity] = old
                  /\ new.quantity.t = "number" => new.quantity.v >= 0
                  /\ old.quantity.t = "number" =>
                        new.quantity =
                            IF old.quantity.v + 100 * change < 0 THEN Num(0)
                            ELSE Num(old.quantity.v + 100 * change)
                  /\ old.quantity = Null =>
                        new.quantity = IF change < 0 THEN Num(0) ELSE Num(100 * change)
                  /\ old.quantity = NaN => new.quantity = NaN

\* C18: adjustQuantity(id, change) sets the quantity of the item with that id
\* to max(0, old quantity + change), never to a negative number, and leaves
\* the other fields of the item, the other items and their order as they
\* were, in memory and in the stored list of the logged-in user.  (A
\* quantity that is not a number stays NaN; a stored null counts as 0.)
C18_AdjustClampsAtZero ==
    [][\A id \in localIds, change \in {-1, 1} :
          adjustQuantity(id, change) =>
              /\ AdjustedBy(id, change)
              /\ \E e \in storage'.inventory_ :
                    e.id = user.id /\ e.value = jsonInventory(inventory')
              /\ \A e \in storage.inventory_ :
                    e.id # user.id => e \in storage'.inventory_
              /\ UNCHANGED <<user, authError, nextLocalId>>
      ]_vars

\* the item added with quantity '-1' has quantity 0 after an adjustment, next
\* to another item
C18_Witness ==
    /\ Len(inventory) = 2
    /\ \E i \in DOMAIN inventory :
          /\ inventory[i].name = str_x
          /\ inventory[i].category = cat_Toys
          /\ inventory[i].quantity = Num(0)

----------------------------------------------------------------------------
(* Malformed ids and what a caller can tell about other users' items       *)
(* (specification Spec).                                                   *)

ByIdOps == {"getItem", "updateItem", "deleteItem"}

\* C19: a get, update or delete with an id that ObjectId.isValid refuses is
\* answered 400 'Invalid item ID format' when the caller is authenticated,
\* whatever the body, and 401 or 403 when not; in both cases no stored item
\* changes.
C19_MalformedIdRejected ==
    [][(req'.op \in ByIdOps /\ req'.id = MalformedId) =>
          /\ items' = items
          /\ IF authenticateToken(req'.header, now).ok
             THEN resp' = [status |-> 400,
                           body |-> [error |-> "Invalid item ID format"]]
             ELSE /\ resp'.status \in {401, 403}
                  /\ resp'.status = 401 <=> headerToken(req'.header) = EmptyToken
      ]_vars

\* an authenticated update with a malformed id and a quantity that cannot be
\* cast was answered 400 for the id
C19_Witness ==
    /\ req.op = "updateItem"
    /\ req.id = MalformedId
    /\ req.body = bodyNotANumber
    /\ Authenticated
    /\ resp.status = 400
    /\ items # {}

\* the response to a get, update or delete of a well-formed id that names no
\* item of the caller, from the request alone: it does not read the items
NotOwnedResponse(op, body) ==
    IF op = "updateItem" /\ updateCastFails(body)
    THEN [status |-> 500, body |-> [error |-> "Server error"]]
    ELSE IF op = "updateItem" /\ updateErrors(body) # <<>>
    THEN [status |-> 400,
          body |-> [error |-> "Validation failed", details |-> updateErrors(body)]]
    ELSE [status |-> 404, body |-> [error |-> "Item not found"]]

\* C20: the response, status and body, to a get, update or delete by an
\* authenticated caller of a well-formed id that names no item of the caller
\* is determined by the operation and the request body alone: it is the same
\* when no item has the id as when another user's item has it, and no item
\* changes.
C20_ForeignLikeAbsent ==
    [][(/\ req'.op \in ByIdOps
        /\ authenticateToken(req'.header, now).ok
        /\ req'.id # MalformedId
        /\ OwnTarget = {}) =>
          /\ resp' = NotOwnedResponse(req'.op,
                        IF req'.op = "updateItem" THEN req'.body ELSE bodyLaptop)
          /\ items' = items
      ]_vars

\* bob's update of alice's item with an invalid body was answered 400, as it
\* is for an id that names nothing
C20_Witness ==
    /\ req.op = "updateItem"
    /\ req.body = bodyInvalid
    /\ req.user.userId = 2
    /\ \E item \in items : item.id = req.id /\ item.userId = 1
    /\ resp.status = 400

----------------------------------------------------------------------------
(* The list route (specification SpecList): alice's Laptop of day 0 is in  *)
(* the collection, and alice and bob add, update, delete and list a week   *)
(* later.                                                                  *)

ListBodies == {bodyLaptop, bodyPen}

NextList ==
    \/ \E h \in OwnerHeaders, b \in ListBodies : AddItem(h, b)
    \/ \E h \in OwnerHeaders, c \in CategoryFilters : ListItems(h, c)
    \/ \E h \in OwnerHeaders, id \in 1..MaxItems, b \in ListBodies : UpdateItem(h, id, b)
    \/ \E h \in OwnerHeaders, id \in 1..MaxItems : DeleteItem(h, id)
    \/ Done

SpecList == InitValidation /\ [][NextList]_vars

\* C21: an authenticated list request is answered 200 with exactly the
\* stored items of the caller (those of the given category when the query
\* names one), each once, an item created later before an item created
\* earlier, and with a count that is the length of the list; no step changes
\* the creation time of an item it keeps, so an update leaves the item where
\* it was in that order.
C21_ListNewestFirst ==
    [][/\ (req'.op = "listItems" /\ authenticateToken(req'.header, now).ok) =>
            LET list == resp'.body.items
                mine == {it \in items : it.userId = headerToken(req'.header).userId}
                asked == {it \in mine : \/ req'.category = Undefined
                                        \/ it.category = req'.category.v}
            IN /\ resp'.status = 200
               /\ Range(list) = asked
               /\ Len(list) = Cardinality(asked)
               /\ resp'.body.count = Len(list)
               /\ \A i, j \in DOMAIN list :
                     list[i].createdAt > list[j].createdAt => i < j
               /\ items' = items
       /\ \A old \in items, new \in items' :
             new.id = old.id => new.createdAt = old.createdAt
      ]_vars

\* alice's list holds the item she added on day 7 before the Laptop of day 0,
\* which she updated on day 7
C21_Witness ==
    /\ req.op = "listItems"
    /\ resp.status = 200
    /\ resp.body.count = 2
    /\ resp.body.items[1].createdAt > resp.body.items[2].createdAt
    /\ resp.body.items[2].updatedAt > resp.body.items[2].createdAt
    /\ resp.body.items[2].updatedAt >= resp.body.items[1].updatedAt

----------------------------------------------------------------------------
(* The remote-API client of frontend/src/App.js.  A fetch call is in       *)
(* `inflight` from the call until its promise settles; the server takes    *)
(* one request up at a time, and its answer is in resp until the           *)
(* continuation of the call has run.                                       *)

\* the (method, path) pairs on which server.js registers a handler
Routes ==
    {<<"POST", "/api/auth/signup">>, <<"POST", "/api/auth/login">>,
     <<"GET", "/api/auth/me">>, <<"POST", "/api/items">>, <<"GET", "/api/items">>,
     <<"GET", "/api/items/:id">>, <<"PUT", "/api/items/:id">>,
     <<"DELETE", "/api/items/:id">>, <<"GET", "/api/stats">>,
     <<"GET", "/api/health">>}

\* app.use((req, res) => res.status(404).json({ error: 'Route not found' }))
RouteNotFound(method, path, body) ==
    /\ Idle
    /\ <<method, path>> \notin Routes
    /\ req' = [op |-> "notFound", method |-> method, path |-> path, body |-> body]
    /\ resp' = [status |-> 404, body |-> [error |-> "Route not found"]]
    /\ UNCHANGED <<clientVars, users, nextUserId, pending, items, nextItemId, now, issued,
                   stripUndefined>>

\* response.ok
ok(r) == r.status \in 200..299

\* the fetch of fetchUser, which closes over the token of its render
fetchUserCall(t, n) == [op |-> "fetchUser", token |-> t, call |-> n]

\* how often React runs the effect of a component it mounts: once, and once
\* more in a development build under <React.StrictMode>
MountEffectRuns == {1, 2}

\* useEffect(() => { if (token) fetchUser(); else setLoading(false) }, [token])
\* when the component mounts with `t` as token and runs the effect `runs` times
mountEffect(t, runs) ==
    IF t # Null
    THEN /\ inflight' = {fetchUserCall(t, n) : n \in 1..runs}
         /\ appLoading' = TRUE
    ELSE /\ inflight' = {}
         /\ appLoading' = FALSE

\* the page is loaded again: every component is built anew, the fetch calls
\* of the old page are gone, and localStorage is kept
Reload ==
    /\ appToken' = localStorage
    /\ appUser' = Null
    /\ errors' = ""
    /\ appItems' = <<>>
    /\ itemsLoading' = FALSE
    /\ selectedCategory' = <<>>
    /\ searchTerm' = <<>>
    /\ \E runs \in MountEffectRuns : mountEffect(localStorage, runs)
    /\ UNCHANGED <<localStorage, localVars, serverVars>>

\* const login = (token, userData) => ...
login(t, userData) ==
    /\ localStorage' = t
    /\ appToken' = t
    /\ appUser' = userData

\* the fetch calls of the effect on [token] after a render in which the token
\* has become t
tokenEffect(t) == IF t # appToken /\ t # Null THEN {fetchUserCall(t, 1)} ELSE {}

\* const logout = () => ...
logout ==
    /\ localStorage' = Null
    /\ appToken' = Null
    /\ appUser' = Null

\* the Logout button of InventoryApp, which is rendered when a user is set
\* and loading is false; the effect on [token] sets loading to false
LogoutButton ==
    /\ appUser # Null
    /\ ~appLoading
    /\ logout
    /\ appLoading' = FALSE
    /\ UNCHANGED <<errors, inventoryVars, inflight, localVars, serverVars>>

\* AuthPage's validateForm() returns true
validateAuthForm(isLogin, formData) ==
    /\ isLogin \/ trim(formData.username) # <<>>
    /\ trim(formData.email) # <<>>
    /\ formData.password # <<>>
    /\ isLogin \/ Len(formData.password) >= 6

\* the URL and method that AuthPage.handleSubmit hands to fetch
SubmitMethod == "POST"
SubmitPath == "/api/auth/me"

\* AuthPage.handleSubmit up to its fetch; AuthPage is rendered when no user is
\* set and loading is false, and its button is disabled while a call is out
handleSubmit(isLogin, formData) ==
    /\ appUser = Null
    /\ ~appLoading
    /\ \A r \in inflight : r.op # "handleSubmit"
    /\ IF ~validateAuthForm(isLogin, formData)
       THEN /\ errors' = ""
            /\ inflight' = inflight
       ELSE /\ errors' = errors
            /\ inflight' = inflight \cup
                  {[op |-> "handleSubmit", isLogin |-> isLogin,
                    method |-> SubmitMethod, path |-> SubmitPath,
                    body |-> IF isLogin
                             THEN [email |-> formData.email,
                                   password |-> formData.password]
                             ELSE formData]}
    /\ UNCHANGED <<localStorage, appToken, appUser, appLoading, inventoryVars,
                    localVars, serverVars>>

\* the request in req is the one of the fetch call r
Answers(r) ==
    /\ ~Idle
    /\ \/ r.op = "fetchUser" /\ req.op = "me" /\ req.header = Bearer(r.token)
       \/ r.op = "handleSubmit" /\ req.op = "notFound" /\ req.body = r.body
       \/ r.op = "fetchItems" /\ req.op = "listItems"
             /\ req.header = Bearer(r.token)
             /\ req.category = IF r.category = <<>> THEN Undefined ELSE Str(r.category)
       \/ r.op \in {"addItem", "updateItem"} /\ req.op = r.op
             /\ req.header = Bearer(r.token) /\ req.body = r.body
             /\ (r.op = "updateItem" => req.id = r.id)
       \/ r.op = "deleteItem" /\ req.op = "deleteItem"
             /\ req.header = Bearer(r.token) /\ req.id = r.id

\* the server takes up the request of a fetch call of AuthProvider or AuthPage
ServeAuth ==
    \E r \in inflight :
        \/ r.op = "fetchUser" /\ Me(Bearer(r.token))
        \/ r.op = "handleSubmit" /\ RouteNotFound(r.method, r.path, r.body)

\* fetchUser from `await fetch` on, with the response in resp
fetchUserSettles ==
    \E r \in inflight :
        /\ r.op = "fetchUser"
        /\ Answers(r)
        /\ inflight' = inflight \ {r}
        /\ IF ok(resp)
           THEN /\ appUser' = resp.body.user
                /\ UNCHANGED <<localStorage, appToken>>
           ELSE logout
        /\ appLoading' = FALSE
        /\ req' = NoReq
        /\ resp' = NoResp
        /\ UNCHANGED <<errors, inventoryVars, localVars, users, nextUserId, pending,
                       items, nextItemId, now, issued, stripUndefined>>

\* fetchUser when fetch rejects (the server is not reached): the catch branch
fetchUserFails ==
    \E r \in inflight :
        /\ r.op = "fetchUser"
        /\ ~Answers(r)
        /\ inflight' = inflight \ {r}
        /\ logout
        /\ appLoading' = FALSE
        /\ UNCHANGED <<errors, inventoryVars, localVars, serverVars>>

\* AuthPage.handleSubmit from `await fetch` on, with the response in resp
handleSubmitSettles ==
    \E r \in inflight :
        /\ r.op = "handleSubmit"
        /\ Answers(r)
        /\ IF ok(resp)
           THEN /\ login(resp.body.token, resp.body.user)
                /\ inflight' = (inflight \ {r}) \cup tokenEffect(resp.body.token)
                /\ errors' = errors
           ELSE /\ errors' = resp.body.error
                /\ inflight' = inflight \ {r}
                /\ UNCHANGED <<localStorage, appToken, appUser>>
        /\ req' = NoReq
        /\ resp' = NoResp
        /\ UNCHANGED <<appLoading, inventoryVars, localVars, users, nextUserId, pending,
                       items, nextItemId, now, issued, stripUndefined>>

\* AuthPage.handleSubmit when fetch rejects: the catch branch
handleSubmitFails ==
    \E r \in inflight :
        /\ r.op = "handleSubmit"
        /\ ~Answers(r)
        /\ inflight' = inflight \ {r}
        /\ errors' = "Network error. Please try again."
        /\ UNCHANGED <<localStorage, appToken, appUser, appLoading, inventoryVars,
                        localVars, serverVars>>

\* a response whose fetch call is gone with the page that made it
Lost ==
    /\ \A r \in inflight : ~Answers(r)
    /\ Done

----------------------------------------------------------------------------
(* AuthProvider and AuthPage (specification SpecProvider): the page is     *)
(* open with nothing, alice's token, alice's expired token or bob's token  *)
(* in localStorage; alice and bob are registered.                          *)

str_carol == <<"c","a","r","o","l">>
str_carol_mail == <<"c","@","x",".","i","o">>

\* what is typed into the form of AuthPage
formAlice == [username |-> <<>>, email |-> str_alice_mail, password |-> str_secret]
formCarol == [username |-> str_carol, email |-> str_carol_mail, password |-> str_secret]
formShort == [username |-> str_carol, email |-> str_carol_mail, password |-> str_pw]

AuthForms == {formAlice, formCarol, formShort}

StoredTokens == {Null, aliceToken, aliceOldToken, bobToken}

InitProvider ==
    /\ users = {alice, bob}
    /\ nextUserId = 3
    /\ pending = {}
    /\ items = {}
    /\ nextItemId = 1
    /\ now = ExpiresIn
    /\ issued = {aliceOldToken, aliceToken, bobToken}
    /\ stripUndefined \in BOOLEAN
    /\ req = NoReq
    /\ resp = NoResp
    /\ LocalInit
    /\ localStorage \in StoredTokens
    /\ appToken = localStorage
    /\ appUser = Null
    /\ errors = ""
    /\ appItems = <<>>
    /\ itemsLoading = FALSE
    /\ selectedCategory = <<>>
    /\ searchTerm = <<>>
    /\ \E runs \in MountEffectRuns :
          /\ inflight = {fetchUserCall(localStorage, n) :
                            n \in IF localStorage = Null THEN {} ELSE 1..runs}
          /\ appLoading = (localStorage # Null)

NextProvider ==
    \/ Reload
    \/ LogoutButton
    \/ \E isLogin \in BOOLEAN, formData \in AuthForms : handleSubmit(isLogin, formData)
    \/ ServeAuth
    \/ fetchUserSettles
    \/ fetchUserFails
    \/ handleSubmitSettles
    \/ handleSubmitFails
    \/ Lost
    \/ Tick

SpecProvider == InitProvider /\ [][NextProvider]_vars

----------------------------------------------------------------------------
(* Sign-up, sign-in, logout and reload in the remote-API client            *)
(* (specification SpecProvider).                                           *)

\* the form holds credentials that the server's sign-up (isLogin false) or
\* login (isLogin true) route accepts
AcceptableCredentials(r) ==
    IF r.isLogin
    THEN \E u \in findUserByEmail(r.body.email) :
            bcryptCompare(r.body.password, u.password)
    ELSE /\ userErrors(NewUser(r.body.username, r.body.email, r.body.password)) = <<>>
         /\ findUserByEmailOrUsername(r.body.email, r.body.username) = {}

\* C22 as stated: when the continuation of a submit of acceptable credentials
\* runs, the request was answered by the sign-up or login route, and the
\* client ends with the user set and the token in localStorage.
C22_Original ==
    [][\A r \in inflight :
          (/\ r.op = "handleSubmit"
           /\ AcceptableCredentials(r)
           /\ Answers(r)
           /\ r \notin inflight'
           /\ req' = NoReq) =>
              /\ req.op \in {"signup", "login"}
              /\ appUser' # Null
              /\ localStorage' # Null
              /\ appToken' = localStorage'
      ]_vars

\* C23 as stated: while the token in localStorage, the token state and the
\* user state are all null, no step other than a call of login sets any of
\* them.
C23_Original ==
    [][(/\ localStorage = Null
        /\ appToken = Null
        /\ appUser = Null
        /\ ~\E r \in inflight : r.op = "handleSubmit" /\ Answers(r) /\ ok(resp)) =>
           /\ localStorage' = Null
           /\ appToken' = Null
           /\ appUser' = Null
      ]_vars

\* C24 as stated, its safety half: a step that removes the token from
\* localStorage is the Logout button (which leaves the fetch calls alone) or
\* the continuation of a /auth/me request that the server has refused.
C24_Original ==
    [][(localStorage # Null /\ localStorage' = Null) =>
          \/ inflight' = inflight
          \/ /\ ~Idle
             /\ req.op = "me"
             /\ ~ok(resp)
      ]_vars

----------------------------------------------------------------------------
(* InventoryProvider, InventoryApp, ItemForm and ItemCard of App.js.       *)

\* s.includes(sub)
includes(s, sub) ==
    \E i \in 0..(Len(s) - Len(sub)) : SubSeq(s, i + 1, i + Len(sub)) = sub

\* const filteredItems = items.filter(item => matchesSearch && matchesCategory)
filteredItems ==
    SelectSeq(appItems, LAMBDA item :
        /\ includes(toLowerCase(item.itemName), toLowerCase(searchTerm))
        /\ selectedCategory = <<>> \/ item.category = selectedCategory)

\* the list of ItemCards is rendered: {!loading && ...}
listShown == ~itemsLoading

\* ItemForm is a modal over the whole page from the click on Submit until
\* its call has settled
modalOpen == \E r \in inflight : r.op \in {"addItem", "updateItem"}

\* the largest number of fetch calls of InventoryProvider that are out at once
MaxInFlight == 2

\* onClick={() => setSelectedCategory(cat === 'All' ? '' : cat)}
setSelectedCategory(cat) ==
    /\ ~modalOpen
    /\ selectedCategory' = cat
    /\ UNCHANGED <<appItems, itemsLoading, searchTerm, inflight, authVars, localVars,
                   serverVars>>

\* onChange={(e) => setSearchTerm(e.target.value)}
setSearchTerm(term) ==
    /\ ~modalOpen
    /\ searchTerm' = term
    /\ UNCHANGED <<appItems, itemsLoading, selectedCategory, inflight, authVars,
                   localVars, serverVars>>

\* the fetch of fetchItems(category)
fetchItemsCall(category, n) ==
    [op |-> "fetchItems", token |-> appToken, category |-> category, call |-> n]

\* Number(x) of a value of the form: a number, or the text of a number input
NumberOf(x) ==
    IF x.t = "number" THEN x
    ELSE IF x.v = <<>> THEN Num(0)
    ELSE parseFloat(x.v)

\* ItemForm's validateForm() returns true
validateItemForm(formData) ==
    /\ trim(formData.itemName) # <<>>
    /\ formData.quantity # Str(<<>>) /\ ~(NumberOf(formData.quantity).v < 0)
    /\ formData.price # Str(<<>>) /\ ~(NumberOf(formData.price).v < 0)

\* const itemData = { ...formData, quantity: Number(...), price: Number(...) }
itemData(formData) ==
    ItemBody(Str(formData.itemName), NumberOf(formData.quantity),
             NumberOf(formData.price), Str(formData.description),
             Str(formData.category))

\* ItemForm.handleSubmit up to the fetch of addItem (editingId = 0) or of
\* updateItem(editingItem._id, itemData); the call closes over the items of
\* its render, and onSuccess over the selected category
ItemFormSubmit(editingId, formData) ==
    /\ ~modalOpen
    /\ Cardinality(inflight) < MaxInFlight
    /\ editingId # 0 =>
          /\ listShown
          /\ \E i \in DOMAIN filteredItems : filteredItems[i].id = editingId
    /\ IF ~validateItemForm(formData)
       THEN inflight' = inflight
       ELSE inflight' = inflight \cup
               {[op |-> IF editingId = 0 THEN "addItem" ELSE "updateItem",
                 token |-> appToken, id |-> editingId, body |-> itemData(formData),
                 items |-> appItems, category |-> selectedCategory]}
    /\ UNCHANGED <<inventoryVars, authVars, localVars, serverVars>>

\* ItemCard.handleDelete, the confirm accepted, up to the fetch of deleteItem
deleteItem(id) ==
    /\ ~modalOpen
    /\ listShown
    /\ Cardinality(inflight) < MaxInFlight
    /\ \E i \in DOMAIN filteredItems : filteredItems[i].id = id
    /\ inflight' = inflight \cup
          {[op |-> "deleteItem", token |-> appToken, id |-> id, items |-> appItems]}
    /\ UNCHANGED <<inventoryVars, authVars, localVars, serverVars>>

\* req.query.category of the request of fetchItems(category)
queryCategory(category) == IF category = <<>> THEN Undefined ELSE Str(category)

\* the server takes up the request of a fetch call of InventoryProvider
ServeItems ==
    \E r \in inflight :
        \/ r.op = "fetchItems" /\ ListItems(Bearer(r.token), queryCategory(r.category))
        \/ r.op = "addItem" /\ AddItem(Bearer(r.token), r.body)
        \/ r.op = "updateItem" /\ UpdateItem(Bearer(r.token), r.id, r.body)
        \/ r.op = "deleteItem" /\ DeleteItem(Bearer(r.token), r.id)

\* fetchItems from `await fetch` on, with the response in resp
fetchItemsSettles ==
    \E r \in inflight :
        /\ r.op = "fetchItems"
        /\ Answers(r)
        /\ inflight' = inflight \ {r}
        /\ appItems' = IF ok(resp) THEN resp.body.items ELSE appItems
        /\ itemsLoading' = FALSE
        /\ req' = NoReq
        /\ resp' = NoResp
        /\ UNCHANGED <<selectedCategory, searchTerm, authVars, localVars, users,
                       nextUserId, pending, items, nextItemId, now, issued,
                       stripUndefined>>

\* items.map(item => item._id === id ? data.item : item)
mapItem(list, id, item) ==
    [i \in DOMAIN list |-> IF list[i].id = id THEN item ELSE list[i]]

\* addItem and updateItem from `await fetch` on, and then ItemForm's
\* handleSubmit: onSuccess() is fetchItems(selectedCategory)
formCallSettles ==
    \E r \in inflight :
        /\ r.op \in {"addItem", "updateItem"}
        /\ Answers(r)
        /\ IF ok(resp)
           THEN /\ appItems' = IF r.op = "addItem"
                               THEN <<resp.body.item>> \o r.items
                               ELSE mapItem(r.items, r.id, resp.body.item)
                /\ inflight' = (inflight \ {r}) \cup
                      {[op |-> "fetchItems", token |-> r.token,
                        category |-> r.category, call |-> 1]}
                /\ itemsLoading' = TRUE
           ELSE /\ inflight' = inflight \ {r}
                /\ UNCHANGED <<appItems, itemsLoading>>
        /\ req' = NoReq
        /\ resp' = NoResp
        /\ UNCHANGED <<selectedCategory, searchTerm, authVars, localVars, users,
                       nextUserId, pending, items, nextItemId, now, issued,
                       stripUndefined>>

\* deleteItem from `await fetch` on, with the response in resp
deleteItemSettles ==
    \E r \in inflight :
        /\ r.op = "deleteItem"
        /\ Answers(r)
        /\ inflight' = inflight \ {r}
        /\ appItems' = IF ok(resp)
                       THEN SelectSeq(r.items, LAMBDA item : item.id # r.id)
                       ELSE appItems
        /\ req' = NoReq
        /\ resp' = NoResp
        /\ UNCHANGED <<itemsLoading, selectedCategory, searchTerm, authVars, localVars,
                       users, nextUserId, pending, items, nextItemId, now, issued,
                       stripUndefined>>

----------------------------------------------------------------------------
(* The inventory page (specification SpecInventory): alice is logged in,   *)
(* her Laptop of day 0 is on the server, and InventoryApp has just been    *)
(* mounted.                                                                *)

str_1 == <<"1">>
str_lap == <<"l","a","p">>

\* what is typed into ItemForm
formPen == [itemName |-> str_Pen, quantity |-> Str(str_3), price |-> Str(str_1),
            description |-> <<>>, category |-> cat_Other]
formBelowZero == [itemName |-> str_Pen, quantity |-> Str(str_minus1),
                  price |-> Str(str_1), description |-> <<>>, category |-> cat_Other]
\* the form filled from the Laptop, with the quantity changed
formLaptopEdit == [itemName |-> str_Laptop, quantity |-> Num(300), price |-> Num(99999),
                   description |-> <<>>, category |-> cat_Electronics]

ItemFormData == {formPen, formBelowZero, formLaptopEdit}

CategoryButtons == {<<>>, cat_Electronics, cat_Other}

SearchTerms == {<<>>, str_lap}

InitInventory ==
    /\ users = {alice, bob}
    /\ nextUserId = 3
    /\ pending = {}
    /\ items = {aliceLaptop}
    /\ nextItemId = 2
    /\ now = ExpiresIn
    /\ issued = {aliceOldToken, aliceToken, bobToken}
    /\ stripUndefined \in BOOLEAN
    /\ req = NoReq
    /\ resp = NoResp
    /\ LocalInit
    /\ localStorage = aliceToken
    /\ appToken = aliceToken
    /\ appUser = withoutPassword(alice)
    /\ appLoading = FALSE
    /\ errors = ""
    /\ appItems = <<>>
    /\ itemsLoading = TRUE
    /\ selectedCategory = <<>>
    /\ searchTerm = <<>>
    /\ \E runs \in MountEffectRuns :
          inflight = {[op |-> "fetchItems", token |-> aliceToken, category |-> <<>>,
                       call |-> n] : n \in 1..runs}

NextInventory ==
    \/ \E cat \in CategoryButtons : setSelectedCategory(cat)
    \/ \E term \in SearchTerms : setSearchTerm(term)
    \/ \E id \in 0..MaxItems, formData \in ItemFormData : ItemFormSubmit(id, formData)
    \/ \E id \in 1..MaxItems : deleteItem(id)
    \/ ServeItems
    \/ fetchItemsSettles
    \/ formCallSettles
    \/ deleteItemSettles

SpecInventory == InitInventory /\ [][NextInventory]_vars

----------------------------------------------------------------------------
(* What the inventory page shows (specification SpecInventory).            *)

\* the stored items of the logged-in user that the selected category and the
\* search term let through
ServerSelection ==
    {it \in items :
        /\ it.userId = appUser.id
        /\ selectedCategory = <<>> \/ it.category = selectedCategory
        /\ includes(toLowerCase(it.itemName), toLowerCase(searchTerm))}

\* no fetch call is out and no response is on its way
Quiescent == inflight = {} /\ Idle

\* C25 as stated: whenever no request is in flight, the items displayed for
\* the selected category (or for 'All') and the search term are exactly the
\* user's items on the server of that category whose name matches the term.
C25_Original == Quiescent => Range(filteredItems) = ServerSelection

\* C28 as stated, its last clause: once all in-flight requests have
\* completed, the client's item list holds no item that the server no longer
\* has.
C28_Original ==
    Quiescent => \A i \in DOMAIN appItems : \E it \in items : it.id = appItems[i].id

----------------------------------------------------------------------------
(* The local-storage client of auth.js with its awaits.  A call of         *)
(* window.storage acts on the storage when it is made; its promise         *)
(* resolves later, the promises in the order of the calls, and the code    *)
(* after the await runs then.                                              *)

\* the largest number of unresolved storage calls at which the user still
\* clicks Sign In, Sign Up or Logout
MaxAwaiting == 3

\* useEffect(() => { loadUserData(); loadInventoryData(); }, [user]) after a
\* render in which `user` is u and the storage is st: the two functions up
\* to their await
loadEffect(u, st) ==
    <<[k |-> "loadUserData", result |-> st.current_user]>> \o
    (IF u = Null THEN <<>>
     ELSE <<[k |-> "loadInventoryData",
             result |-> {e \in st.inventory_ : e.id = u.id}]>>)

\* loadUserData after its await: setUser(JSON.parse(result.value)) sets a new
\* object, so `user` has changed and the effect runs again
loadUserDataResumes ==
    /\ awaiting # <<>>
    /\ Head(awaiting).k = "loadUserData"
    /\ IF Head(awaiting).result # Null
       THEN /\ user' = Head(awaiting).result
            /\ awaiting' = Tail(awaiting) \o loadEffect(Head(awaiting).result, storage)
       ELSE /\ user' = user
            /\ awaiting' = Tail(awaiting)
    /\ UNCHANGED <<storage, inventory, authError, nextLocalId, serverVars, appVars>>

\* loadInventoryData after its await
loadInventoryDataResumes ==
    /\ awaiting # <<>>
    /\ Head(awaiting).k = "loadInventoryData"
    /\ inventory' = IF Head(awaiting).result # {}
                    THEN (CHOOSE e \in Head(awaiting).result : TRUE).value
                    ELSE inventory
    /\ awaiting' = Tail(awaiting)
    /\ UNCHANGED <<storage, user, authError, nextLocalId, serverVars, appVars>>

\* handleSignIn up to its first await; the sign-in form is shown when no user
\* is set
handleSignInCalled(email, password) ==
    /\ user = Null
    /\ Len(awaiting) < MaxAwaiting
    /\ authError' = ""
    /\ awaiting' = Append(awaiting, [k |-> "handleSignIn", stage |-> 1,
                                     result |-> getUser(email), password |-> password])
    /\ UNCHANGED <<storage, user, inventory, nextLocalId, serverVars, appVars>>

\* handleSignIn after its first await (stage 1) and after its second (stage 2)
handleSignInResumes ==
    /\ awaiting # <<>>
    /\ Head(awaiting).k = "handleSignIn"
    /\ LET call == Head(awaiting) IN
       IF call.stage = 1
       THEN IF call.result = {}
            THEN /\ authError' = "User not found"
                 /\ awaiting' = Tail(awaiting)
                 /\ UNCHANGED <<storage, user>>
            ELSE LET userData == CHOOSE u \in call.result : TRUE IN
                 IF userData.password # call.password
                 THEN /\ authError' = "Invalid password"
                      /\ awaiting' = Tail(awaiting)
                      /\ UNCHANGED <<storage, user>>
                 ELSE /\ storage' = [storage EXCEPT !.current_user = userData]
                      /\ awaiting' = Append(Tail(awaiting),
                            [k |-> "handleSignIn", stage |-> 2, userData |-> userData])
                      /\ UNCHANGED <<user, authError>>
       ELSE /\ user' = call.userData
            /\ awaiting' = Tail(awaiting) \o loadEffect(call.userData, storage)
            /\ UNCHANGED <<storage, authError>>
    /\ UNCHANGED <<inventory, nextLocalId, serverVars, appVars>>

\* handleSignUp up to its first await
handleSignUpCalled(email, name, password, confirmPassword) ==
    /\ user = Null
    /\ Len(awaiting) < MaxAwaiting
    /\ IF password # confirmPassword
       THEN /\ authError' = "Passwords do not match"
            /\ awaiting' = awaiting
       ELSE IF Len(password) < 6
       THEN /\ authError' = "Password must be at least 6 characters"
            /\ awaiting' = awaiting
       ELSE /\ authError' = ""
            /\ awaiting' = Append(awaiting,
                  [k |-> "handleSignUp", stage |-> 1, result |-> getUser(email),
                   email |-> email, name |-> name, password |-> password])
    /\ UNCHANGED <<storage, user, inventory, nextLocalId, serverVars, appVars>>

\* handleSignUp after its first await (stage 1), after the set of the user
\* record (stage 2) and after the set of current_user (stage 3)
handleSignUpResumes ==
    /\ awaiting # <<>>
    /\ Head(awaiting).k = "handleSignUp"
    /\ LET call == Head(awaiting) IN
       IF call.stage = 1
       THEN IF call.result # {}
            THEN /\ authError' = "User already exists"
                 /\ awaiting' = Tail(awaiting)
                 /\ UNCHANGED <<storage, user, nextLocalId>>
            ELSE LET newUser == [id |-> nextLocalId, email |-> call.email,
                                 name |-> call.name, password |-> call.password]
                 IN /\ nextLocalId <= MaxLocalIds
                    /\ nextLocalId' = nextLocalId + 1
                    /\ storage' = [storage EXCEPT !.user_ =
                          {u \in @ : u.email # newUser.email} \cup {newUser}]
                    /\ awaiting' = Append(Tail(awaiting),
                          [k |-> "handleSignUp", stage |-> 2, newUser |-> newUser])
                    /\ UNCHANGED <<user, authError>>
       ELSE IF call.stage = 2
       THEN /\ storage' = [storage EXCEPT !.current_user = call.newUser]
            /\ awaiting' = Append(Tail(awaiting),
                  [k |-> "handleSignUp", stage |-> 3, newUser |-> call.newUser])
            /\ UNCHANGED <<user, authError, nextLocalId>>
       ELSE /\ user' = call.newUser
            /\ awaiting' = Tail(awaiting) \o loadEffect(call.newUser, storage)
            /\ UNCHANGED <<storage, authError, nextLocalId>>
    /\ UNCHANGED <<inventory, serverVars, appVars>>

\* handleLogout up to its await; the Logout button is in the inventory view
handleLogoutCalled ==
    /\ user # Null
    /\ Len(awaiting) < MaxAwaiting
    /\ storage' = [storage EXCEPT !.current_user = Null]
    /\ awaiting' = Append(awaiting, [k |-> "handleLogout"])
    /\ UNCHANGED <<user, inventory, authError, nextLocalId, serverVars, appVars>>

\* handleLogout after its await; the effect runs when `user` was not null
handleLogoutResumes ==
    /\ awaiting # <<>>
    /\ Head(awaiting).k = "handleLogout"
    /\ user' = Null
    /\ inventory' = <<>>
    /\ awaiting' = Tail(awaiting) \o
                      (IF user # Null THEN loadEffect(Null, storage) ELSE <<>>)
    /\ UNCHANGED <<storage, authError, nextLocalId, serverVars, appVars>>

\* a promise of window.storage resolves and the code after its await runs
Resumes ==
    \/ loadUserDataResumes
    \/ loadInventoryDataResumes
    \/ handleSignInResumes
    \/ handleSignUpResumes
    \/ handleLogoutResumes

----------------------------------------------------------------------------
(* Two users of one browser (specifications SpecLocalAsync and             *)
(* SpecLocalLive): ann and ben have signed up, ann has added a Laptop, and *)
(* the page is opened with nobody or ann logged in.                        *)

ann == [id |-> 1, email |-> str_alice_mail, name |-> str_alice, password |-> str_secret]
ben == [id |-> 2, email |-> str_bob_mail, name |-> str_bob, password |-> str_secret]

\* the Laptop that ann added
annLaptop == [id |-> 3, name |-> str_Laptop, category |-> cat_Electronics,
              quantity |-> Num(200), price |-> Num(50)]

AsyncEmails == {str_alice_mail, str_bob_mail}

InitLocalAsync ==
    /\ users = {}
    /\ nextUserId = 1
    /\ pending = {}
    /\ items = {}
    /\ nextItemId = 1
    /\ now = 0
    /\ issued = {}
    /\ stripUndefined = TRUE
    /\ req = NoReq
    /\ resp = NoResp
    /\ AppClosed
    /\ \E current \in {Null, ann} :
          storage = [user_ |-> {ann, ben}, current_user |-> current,
                     inventory_ |-> {[id |-> ann.id, value |-> <<annLaptop>>]}]
    /\ user = Null
    /\ inventory = <<>>
    /\ authError = ""
    /\ nextLocalId = 4
    /\ awaiting = loadEffect(Null, storage)

NextLocalAsync ==
    \/ \E e \in AsyncEmails, p \in {str_secret, str_hunter} : handleSignInCalled(e, p)
    \/ \E e \in {str_bob_mail, str_carol_mail}, p \in {str_secret, str_pw} :
          handleSignUpCalled(e, str_carol, p, str_secret)
    \/ handleLogoutCalled
    \/ handleAddItem(formLaptop)
    \/ Resumes

SpecLocalAsync == InitLocalAsync /\ [][NextLocalAsync]_vars

\* every promise of window.storage resolves
SpecLocalLive == SpecLocalAsync /\ WF_vars(Resumes)

----------------------------------------------------------------------------
(* Whose data the local-storage client holds, and whether its load effect  *)
(* comes to rest (specifications SpecLocalAsync and SpecLocalLive).        *)

\* the ids of the items of a list
idsOf(list) == {list[i].id : i \in DOMAIN list}

\* C26 as stated, for ann's Laptop and ben: while ben is the logged-in user
\* the inventory in memory does not hold the item that ann added, and neither
\* does the list stored under inventory_<ben's id>.
C26_Original ==
    /\ (user # Null /\ user.id = ben.id) => annLaptop.id \notin idsOf(inventory)
    /\ \A e \in storage.inventory_ : e.id = ben.id => annLaptop.id \notin idsOf(e.value)

----------------------------------------------------------------------------
(* Interleaved sign-ups (specification SpecAuth).                          *)

\* C27 as stated: when the insert of a sign-up whose existence check has
\* passed meets a user that another sign-up has inserted since, with the same
\* email or the same username, the request is answered 400 and no user is
\* added.
C27_Original ==
    [][\A p \in pending :
          (p \notin pending' /\ duplicateKey(p.doc)) =>
              /\ resp'.status = 400
              /\ users' = users
      ]_vars

----------------------------------------------------------------------------
(* Requests of one item that are out at the same time (specification       *)
(* SpecRace): alice's Laptop is stored, and alice sends an update and two  *)
(* deletes of it without waiting for the answers.  A request in `inflight` *)
(* has status 0 until its response has come back.                          *)

\* fetch(`${API_URL}/items/${id}`, { method: 'PUT', ... }) and
\* fetch(`${API_URL}/items/${id}`, { method: 'DELETE', ... }) with alice's token
RaceRequests ==
    {[op |-> "updateItem", token |-> aliceToken, id |-> aliceLaptop.id, body |-> b,
      n |-> 1, status |-> 0, item |-> Null] : b \in {bodyPen, bodyInvalid}}
    \cup
    {[op |-> "deleteItem", token |-> aliceToken, id |-> aliceLaptop.id,
      body |-> bodyLaptop, n |-> n, status |-> 0, item |-> Null] : n \in 1..2}

\* the request is sent; each of the three is sent once
sendRequest(r) ==
    /\ \A s \in inflight : ~(s.op = r.op /\ s.n = r.n)
    /\ inflight' = inflight \cup {r}
    /\ UNCHANGED <<appToken, appUser, localStorage, appLoading, errors, inventoryVars,
                   localVars, serverVars>>

\* the server takes up a request that is out
ServeRace ==
    \E r \in inflight :
        /\ r.status = 0
        /\ \/ r.op = "updateItem" /\ UpdateItem(Bearer(r.token), r.id, r.body)
           \/ r.op = "deleteItem" /\ DeleteItem(Bearer(r.token), r.id)

\* the response comes back: response.status, and data.item when it is there
receiveResponse ==
    \E r \in inflight :
        /\ r.status = 0
        /\ Answers(r)
        /\ inflight' = (inflight \ {r}) \cup
              {[r EXCEPT !.status = resp.status,
                         !.item = IF ok(resp) THEN resp.body.item ELSE Null]}
        /\ req' = NoReq
        /\ resp' = NoResp
        /\ UNCHANGED <<appToken, appUser, localStorage, appLoading, errors,
                       inventoryVars, localVars, users, nextUserId, pending, items,
                       nextItemId, now, issued, stripUndefined>>

InitRace ==
    /\ users = {alice, bob}
    /\ nextUserId = 3
    /\ pending = {}
    /\ items = {aliceLaptop}
    /\ nextItemId = 2
    /\ now = ExpiresIn
    /\ issued = {aliceOldToken, aliceToken, bobToken}
    /\ stripUndefined \in BOOLEAN
    /\ req = NoReq
    /\ resp = NoResp
    /\ ClientInit

NextRace ==
    \/ \E r \in RaceRequests : sendRequest(r)
    \/ ServeRace
    \/ receiveResponse

SpecRace == InitRace /\ [][NextRace]_vars

\* the requests whose response has come back with this status
Answered(op, status) == {r \in inflight : r.op = op /\ r.status = status}

\* a delete of the item has been applied: its response has come back with
\* 200, or is on its way
deleteApplied ==
    \/ Answered("deleteItem", 200) # {}
    \/ ~Idle /\ req.op = "deleteItem" /\ resp.status = 200

\* C30: of the deletes of the item that have been answered exactly one was
\* answered 200 and every other one 404; from the moment a delete is applied
\* the item is absent and stays absent, whatever update is served afterwards:
\* such an update is answered 404 (or 400 for an invalid body) and stores
\* nothing.  A delete that follows an update answered 200 returns the record
\* as the update left it, and a delete that precedes every update returns the
\* record as it was stored.  An update is answered 404 only after a delete.
C30_UpdateDeleteAtomic ==
    /\ Cardinality(Answered("deleteItem", 200)) <= 1
    /\ \A d \in inflight :
          (d.op = "deleteItem" /\ d.status # 0) => d.status \in {200, 404}
    /\ (Answered("deleteItem", 404) # {}) => (Answered("deleteItem", 200) # {})
    /\ items = IF deleteApplied THEN {}
               ELSE {it \in items : it.id = aliceLaptop.id /\ it.userId = alice.id}
    /\ ~deleteApplied => Cardinality(items) = 1
    /\ \A u \in inflight :
          (u.op = "updateItem" /\ u.status # 0) =>
             /\ u.status \in {200, 400, 404}
             /\ (u.status = 404) => deleteApplied
             /\ (u.status = 400) <=> (u.body = bodyInvalid)
    /\ \A d \in Answered("deleteItem", 200) :
          IF Answered("updateItem", 200) # {}
          THEN \E u \in Answered("updateItem", 200) : d.item = u.item
          ELSE d.item = aliceLaptop

\* the update was answered 200, then one delete 200 with the updated record,
\* and the other delete 404
C30_Witness ==
    /\ Answered("deleteItem", 404) # {}
    /\ \E u \in Answered("updateItem", 200), d \in Answered("deleteItem", 200) :
          /\ d.item = u.item
          /\ d.item # aliceLaptop
    /\ items = {}

\* the delete was answered 200 first, and the update then 404
C30_WitnessDeleteFirst ==
    /\ Answered("updateItem", 404) # {}
    /\ \E d \in Answered("deleteItem", 200) : d.item = aliceLaptop
    /\ items = {}

====
